---------------------------- MODULE Spec2Model ----------------------------
(***************************************************************************)
(* A model of react-worker: the Stream Collector (utils/data-stream), the  *)
(* Single-Worker Supervisor (core/worker.hook.ts) and the Worker Pool      *)
(* Supervisor (worker-pool hook, listed in lib/README.md).                 *)
(*                                                                         *)
(* Each subsystem has its own specification over the shared variables:     *)
(*   SpecCollector   - StreamCollector.addChunk driven by arbitrary calls  *)
(*   SpecSupervisor  - useWorker: start/terminate/restart/postMessage,     *)
(*                     worker messages and timers                          *)
(*   SpecPool        - useWorkerPool: start/postMessage/terminate, worker  *)
(*                     messages and task timers                            *)
(*   SpecListeners   - useWorker: onMessage and its de-registration         *)
(*                     functions, with start/terminate and worker messages *)
(*   SpecStream      - a streaming worker (data-stream.worker.ts with      *)
(*                     utils/worker-stream) emitting to a running          *)
(*                     supervisor and its collector                        *)
(*   SpecEmit        - the streaming worker alone: stream and stop actions *)
(*                     on reused ids, intervals and clean-up timers        *)
(*   SpecChunk       - chunkByCount and chunkBySize (utils/worker-stream)  *)
(*                     applied to bounded arrays                           *)
(*   SpecDeliver     - emissions on one reused streamId, processed by a   *)
(*                     running supervisor: its collector and its stream    *)
(*                     callbacks                                           *)
(***************************************************************************)
EXTENDS Integers, Sequences, FiniteSets, TLC

Null == "null"

(***************************************************************************)
(* Bounds of the model.                                                    *)
(***************************************************************************)
\* addChunk calls made on the collector
MaxCalls == 4
\* totalChunks ranges over 1..MaxIndex+1, a chunk's index over 0..totalChunks-1
MaxIndex == 2

\* worker instances one supervisor may construct
MaxInstances == 3
\* messages a supervisor sends to, and receives from, one worker instance
MaxMsgs == 2
\* restart() calls whose delayed start is still pending
MaxPendingRestarts == 2
\* the idleTimeout prop and the (non-zero) timeout prop, in time units
IdleTimeout == 2
InitTimeout == 2
\* restart()'s grace delay, setTimeout(..., 100): one time unit is 100 ms
RestartDelay == 1

\* items of the array a stream action is given, and its itemsPerChunk
MaxItems == 4
MaxPerChunk == 3
\* stream actions and stop actions one worker handles
MaxStreams == 3
MaxStops == 1
\* the itemsPerChunk of the stream actions of the worker taken alone
EmitPerChunk == 2
\* the clean-up timer's extra 500 ms, in interval periods of 100 ms
CleanupDelay == 5
\* items of an array given to a chunking function, and the byte limit
MaxLen == 3
\* emissions on one streamId, and the items of one emission, when the stream
\* callbacks are examined
MaxEmissions == 2
MaxDeliver == 3
MaxBytes == 12

\* tasks submitted through Pool.postMessage
MaxTasks == 2
\* worker instances one pool may construct (over all its start() calls)
MaxPoolInstances == 2

VARIABLES
  \* ---- StreamCollector ----
  streams,      \* Map<streamId, Map<chunkIndex, StreamChunk>>
  completions,  \* the onComplete(streamId, data) invocations, in order
  calls         \* the addChunk calls made so far, each with its return value
                \* and the indices stored before and after stream.set

VARIABLES
  \* ---- Single-Worker Supervisor (useWorker) ----
  keepAlive,         \* prop keepAlive
  timeout,           \* prop timeout (0: not given)
  status,            \* useState status
  error,             \* useState error: Null or the reason
  worker,            \* worker.current: 0 (null) or the instance held
  aliveInstances,    \* the instances constructed and not yet terminated
  created,           \* number of instances constructed so far
  messageHandlerRef, \* the instance the message handler is attached to, 0 if none
  timeoutRef,        \* init-timeout timer: -1 (none pending) or time units left
  idleTimerRef,      \* idle timer: -1 (none pending) or time units left
  restartTimers,     \* the delays left of restart()'s pending setTimeout(start)
  messagesSent,      \* metricsRef.current.messagesSent
  messagesReceived,  \* metricsRef.current.messagesReceived
  sinceActivity,     \* now - metricsRef.current.lastActivity, saturating
  readyFrom,         \* history: the instance whose READY was processed since start
  callerTerminated,  \* history: terminate() returned, no start()/restart() call since
  lastOp,            \* history: the handler that ran last (for messageHandler:
                     \* the type of the message it processed)
  seen,              \* history: the messages processed since start(), counted
                     \* as READY, as PONG and as any other type
  errorCallbacks,    \* history: callbacks.onError calls of the handler that ran last
  pendingMessagesRef,\* pendingMessagesRef.current: its size, and whether the
                     \* id messageIdCounter - 1 is one of its keys
  responseTimes,     \* responseTimes.current: the number of latency samples
  averageResponseTime, \* metricsRef.current.averageResponseTime: 0, or the
                     \* mean of the samples
  recentResponses,   \* recentResponses.current: the number of entries
  throughputPerMin,  \* metricsRef.current.performance.throughputPerMin
  listenersRef,      \* listenersRef.current: the registered handlers
  unsubscribers,     \* the handlers a de-registration function was returned for
  channel,           \* the messages posted to the worker held, in order
  notified,          \* history: per handler, the invocations by the handler that
                     \* ran last and the bookkeeping the listener then observes
  lastArg,           \* history: the argument of the postMessage call that ran last
  replaced           \* history: the worker the start() that ran last tore down

collVars == <<streams, completions, calls>>

supVars == <<keepAlive, timeout, status, error, worker, aliveInstances, created,
             messageHandlerRef, timeoutRef, idleTimerRef, restartTimers,
             messagesSent, messagesReceived, sinceActivity, readyFrom,
             callerTerminated, lastOp, seen, errorCallbacks, pendingMessagesRef,
             responseTimes, averageResponseTime, recentResponses,
             throughputPerMin, listenersRef, unsubscribers, channel, notified,
             lastArg, replaced>>

\* the response-time and throughput bookkeeping of the metrics
metVars == <<pendingMessagesRef, responseTimes, averageResponseTime,
             recentResponses, throughputPerMin>>

\* the listener registry
lstVars == <<listenersRef, unsubscribers>>

VARIABLES
  \* ---- Worker Pool Supervisor (useWorkerPool) ----
  poolSize,          \* prop poolSize
  poolTimeout,       \* prop timeout is non-zero
  instances,         \* every WorkerInstance constructed: [slot, status, busy]
  poolAlive,         \* the instances constructed and not yet terminated
  workersRef,        \* workersRef.current: the instances held, in Map order
  taskQueueRef,      \* taskQueueRef.current: the queued task ids, head first
  tasks,             \* per task: its promise, its timer, and history fields
  listeners,         \* per instance: the tasks whose handleResponse is attached
  inbox,             \* per instance: the requests posted to it, not yet answered
  warmupTimers,      \* pending warm-up timers of start()
  poolStatus,        \* useState status
  availableWorkers,  \* useState availableWorkers
  queueLength,       \* useState queueLength
  doubleAssigned     \* history: one pass of processQueue's loop has assigned
                     \* two tasks to the same worker

poolVars == <<poolSize, poolTimeout, instances, poolAlive, workersRef, taskQueueRef,
              tasks, listeners, inbox, warmupTimers, poolStatus, availableWorkers,
              queueLength, doubleAssigned>>

VARIABLES
  \* ---- streaming worker (data-stream.worker.ts, WorkerDataStream) ----
  source,            \* history: the stream action handled: its data and
                     \* itemsPerChunk
  dataStreams,       \* the WorkerDataStream objects created, in order
  activeStreams,     \* the worker's activeStreams map: streamId -> object
  cleanupTimer,      \* per stream action: the time left of its clean-up
                     \* timer, or NoTimer
  stopsHandled,      \* number of stop actions handled
  chunkCall,         \* the call of a chunking function under examination
  chunkResult,       \* what that call returned
  wire,              \* messages the worker has sent, not yet processed
  observed,          \* history: the messages of the worker the supervisor
                     \* processed, in order
  streamCallbacks    \* history: the onStreamChunk and onStreamComplete
                     \* callbacks the supervisor has invoked, in order

emitVars == <<source, dataStreams, activeStreams, cleanupTimer, stopsHandled,
              chunkCall, chunkResult, wire, observed, streamCallbacks>>

vars == <<collVars, supVars, poolVars, emitVars>>

(***************************************************************************)
(* StreamCollector                                                         *)
(***************************************************************************)
StreamIds == {"s1"}
ChunkIndices == 0..MaxIndex
TotalCounts == 1..(MaxIndex + 1)

\* The least element of a non-empty set of integers.
MinOf(S) == CHOOSE x \in S : \A y \in S : x <= y

\* (mutant) the stored chunks in descending chunkIndex order.
MaxOf(S) == CHOOSE x \in S : \A y \in S : x >= y

RECURSIVE SortedChunksDescending(_)
SortedChunksDescending(stream) ==
  IF DOMAIN stream = {} THEN <<>>
  ELSE LET i == MaxOf(DOMAIN stream)
       IN <<stream[i]>> \o
          SortedChunksDescending([j \in DOMAIN stream \ {i} |-> stream[j]])

\* Array.from(stream.values()).sort((a, b) => a.chunkIndex - b.chunkIndex):
\* the stored chunks in ascending chunkIndex order (the keys are distinct).
RECURSIVE SortedChunks(_)
SortedChunks(stream) ==
  IF DOMAIN stream = {} THEN <<>>
  ELSE LET i == MinOf(DOMAIN stream)
       IN <<stream[i]>> \o SortedChunks([j \in DOMAIN stream \ {i} |-> stream[j]])

\* StreamCollector.getStreamData over a given streams map.
\* The result is [found, data]: found = FALSE stands for the null result.
NoData == [found |-> FALSE, data |-> <<>>]

GetStreamData(strs, streamId) ==
  IF streamId \notin DOMAIN strs THEN NoData
  ELSE LET chunks == SortedChunks(strs[streamId])
       IN IF Len(chunks) = 0 THEN NoData
          ELSE IF Len(chunks) # chunks[1].totalChunks THEN NoData
          ELSE [found |-> TRUE, data |-> [k \in 1..Len(chunks) |-> chunks[k].data]]

\* stream.set(chunk.chunkIndex, chunk) on the (possibly fresh) entry of chunk.id
StoreChunk(strs, chunk) ==
  LET old == IF chunk.id \in DOMAIN strs THEN strs[chunk.id] ELSE <<>>
      new == [j \in DOMAIN old \cup {chunk.chunkIndex} |->
                IF j = chunk.chunkIndex THEN chunk ELSE old[j]]
  IN [s \in DOMAIN strs \cup {chunk.id} |-> IF s = chunk.id THEN new ELSE strs[s]]

\* The completion test of addChunk: stream.size === chunk.totalChunks
SizeMatches(stream, chunk) == Cardinality(DOMAIN stream) = chunk.totalChunks

\* addChunk decides completion: the size test, then getStreamData non-null.
Completes(stored, chunk) ==
  /\ SizeMatches(stored[chunk.id], chunk)
  /\ GetStreamData(stored, chunk.id).found

\* this.streams.delete(id)
DeleteStream(strs, streamId) == [s \in DOMAIN strs \ {streamId} |-> strs[s]]

\* The streams map after addChunk(chunk).
AddChunkStreams(strs, chunk) ==
  LET stored == StoreChunk(strs, chunk)
  IN IF Completes(stored, chunk) THEN DeleteStream(stored, chunk.id) ELSE stored

\* The onComplete invocations after addChunk(chunk).  Beside the callback's
\* arguments (id, data) an entry records, for the properties only, the indices
\* stored when it fired and the totalChunks of the chunk that triggered it.
AddChunkCompletions(strs, comps, chunk) ==
  LET stored == StoreChunk(strs, chunk)
  IN IF Completes(stored, chunk)
     THEN Append(comps, [id |-> chunk.id,
                         data |-> GetStreamData(stored, chunk.id).data,
                         stored |-> DOMAIN stored[chunk.id],
                         totalChunks |-> chunk.totalChunks])
     ELSE comps

\* The value addChunk(chunk) returns.
AddChunkReturn(strs, chunk) == Completes(StoreChunk(strs, chunk), chunk)

\* One call of StreamCollector.addChunk.  The payload of the n-th call is n, so
\* that any two deliveries are distinguishable in the reassembled data.
AddChunk(id, idx, total) ==
  /\ Len(calls) < MaxCalls
  /\ LET chunk == [id |-> id, chunkIndex |-> idx, totalChunks |-> total,
                   data |-> Len(calls) + 1]
     IN /\ streams' = AddChunkStreams(streams, chunk)
        /\ completions' = AddChunkCompletions(streams, completions, chunk)
        /\ UNCHANGED <<supVars, poolVars, emitVars>>
        /\ calls' = Append(calls, [id |-> id, chunkIndex |-> idx,
                                   totalChunks |-> total, data |-> chunk.data,
                                   ret |-> AddChunkReturn(streams, chunk),
                                   before |-> IF id \in DOMAIN streams
                                              THEN DOMAIN streams[id] ELSE {},
                                   after |-> DOMAIN StoreChunk(streams, chunk)[id]])

InitCollector ==
  /\ streams = <<>>
  /\ completions = <<>>
  /\ calls = <<>>

NextCollector ==
  \E id \in StreamIds, total \in TotalCounts :
    \E idx \in ChunkIndices : idx < total /\ AddChunk(id, idx, total)

(***************************************************************************)
(* Single-Worker Supervisor                                                *)
(***************************************************************************)
NoTimer == -1

\* The outbound messages a worker may send (protocol.ts StandardOutbound).
Outbound ==
  { [type |-> t] : t \in {"READY", "ERROR", "WARNING", "PONG", "ACTED",
                          "TERMINATED", "PROGRESS"} }
  \cup { [type |-> "HEALTH", status |-> h] : h \in {"healthy", "degraded"} }

\* The inbound messages a caller may pass to postMessage.
Inbound == { [type |-> t] : t \in {"PING", "ACTION"} }

\* The handler functions callers pass to onMessage.
Handlers == {"h1", "h2"}

\* The result types of the response-time accounting and of the pool.
ResultTypes == {"ACTED", "ECHOED", "PONG"}

\* (mutant) resetIdleTimer that arms a timer only when none is pending.
ResetIdleTimerKeepsPending(old) ==
  IF ~keepAlive /\ IdleTimeout > 0 /\ old = -1 THEN IdleTimeout ELSE old

\* resetIdleTimer: the idle timer after the call, given the one before.
ResetIdleTimer(old) ==
  IF ~keepAlive /\ IdleTimeout > 0 THEN IdleTimeout ELSE old

\* The time since the last activity, one time unit later.
Later(t) == IF t > IdleTimeout THEN t ELSE t + 1

\* performance: {} has no throughputPerMin.
Undefined == -1

\* pendingMessagesRef after clear().
NoPending == [size |-> 0, latest |-> FALSE]

\* averageResponseTime: 0
ZeroAverage == "0"

\* responseTimes.reduce((a, b) => a + b, 0) / responseTimes.length: the
\* latencies are wall-clock differences, which the model does not measure.
Average == "mean"

\* The prune loop of recentResponses after the push of a new entry onto n
\* entries: the entries older than 60 s are shifted off the head.  The model
\* does not measure the age of an entry: any number of the n earlier entries
\* may have left the window, the entry just pushed has not.
Pruned(n) == 1..(n + 1)

\* No listener was invoked.
NotNotified == [calls |-> 0, type |-> Null, received |-> -1, status |-> Null]
NoneNotified == [h \in Handlers |-> NotNotified]

\* (mutant) a fan-out that runs before the message's bookkeeping.
NotifyBeforeBookkeeping(m) ==
  notified' = [h \in Handlers |->
                 IF h \in listenersRef
                 THEN [calls |-> 1, type |-> m.type,
                       received |-> messagesReceived, status |-> status]
                 ELSE NotNotified]

\* listenersRef.current.forEach((handler) => handler(event)), the last
\* statement of messageHandler: a listener observes the counters and the
\* status as the handler has set them.
Notify(m) ==
  notified' = [h \in Handlers |->
                 IF h \in listenersRef
                 THEN [calls |-> 1, type |-> m.type,
                       received |-> messagesReceived', status |-> status']
                 ELSE NotNotified]

\* (mutant) a terminate() that drops the handle without terminating the worker.
WorkerTerminateLeaks(alive, w) == alive

\* worker.current?.terminate(): the instances alive afterwards.
WorkerTerminate(alive, w) == alive \ {w}

\* terminate(): the status is written 'terminating' and then 'idle'; the
\* timers are cleared, the handler removed, the worker terminated and dropped.
\* st is the status the enclosing handler leaves (terminate itself: 'idle').
TerminateTo(st) ==
  /\ status' = st
  /\ timeoutRef' = NoTimer
  /\ idleTimerRef' = NoTimer
  /\ messageHandlerRef' = IF messageHandlerRef # 0 /\ worker # 0 THEN 0
                          ELSE messageHandlerRef
  /\ aliveInstances' = WorkerTerminate(aliveInstances, worker)
  /\ worker' = 0
  /\ channel' = <<>>

\* The body of start(): terminate a held worker, reset the metrics, construct
\* the worker (ok = FALSE: the constructor throws), attach the handler, arm
\* the init timeout and the idle timer.
NoneSeen == [ready |-> 0, pong |-> 0, other |-> 0, result |-> 0]

\* (mutant) a failing start() that skips the terminate() of the held worker.
StartFailsKeepsWorker ==
  /\ status' = "error"
  /\ error' = "Failed to create worker"
  /\ errorCallbacks' = 1
  /\ UNCHANGED <<created, worker, aliveInstances, messageHandlerRef, timeoutRef,
                 idleTimerRef, channel>>

\* start() when new Worker(...) throws: the held worker, if any, was
\* terminated before the try block; the catch block sets the error, calls
\* onError and sets the status 'error'.
StartFails ==
  /\ status' = "error"
  /\ error' = "Failed to create worker"
  /\ errorCallbacks' = 1
  /\ created' = created
  /\ worker' = 0
  /\ channel' = <<>>
  /\ aliveInstances' = WorkerTerminate(aliveInstances, worker)
  /\ messageHandlerRef' = IF worker # 0 THEN 0 ELSE messageHandlerRef
  /\ timeoutRef' = IF worker # 0 THEN NoTimer ELSE timeoutRef
  /\ idleTimerRef' = IF worker # 0 THEN NoTimer ELSE idleTimerRef

\* The metrics reset of start(): metricsRef.current is replaced, responseTimes
\* and pendingMessagesRef are emptied; recentResponses is not touched.
ResetMetrics ==
  /\ messagesSent' = 0
  /\ messagesReceived' = 0
  /\ sinceActivity' = 0
  /\ averageResponseTime' = ZeroAverage
  /\ throughputPerMin' = Undefined
  /\ responseTimes' = 0
  /\ pendingMessagesRef' = NoPending
  /\ UNCHANGED recentResponses

StartBody(ok) ==
  /\ created < MaxInstances
  /\ ResetMetrics
  /\ readyFrom' = 0
  /\ seen' = NoneSeen
  /\ replaced' = worker
  /\ notified' = NoneNotified
  /\ lastArg' = Null
  /\ IF ok
     THEN /\ status' = "starting"
          /\ error' = Null
          /\ errorCallbacks' = 0
          /\ created' = created + 1
          /\ worker' = created + 1
          /\ channel' = <<>>
          /\ aliveInstances' =
               WorkerTerminate(aliveInstances, worker) \cup {created + 1}
          /\ messageHandlerRef' = created + 1
          /\ timeoutRef' = IF timeout # 0 THEN timeout
                           ELSE IF worker # 0 THEN NoTimer ELSE timeoutRef
          /\ idleTimerRef' = ResetIdleTimer(IF worker # 0 THEN NoTimer
                                            ELSE idleTimerRef)
     ELSE StartFails

\* The caller invokes start().
Start(ok) ==
  /\ StartBody(ok)
  /\ callerTerminated' = FALSE
  /\ lastOp' = IF ok THEN "start" ELSE "startFailed"
  /\ UNCHANGED <<keepAlive, timeout, restartTimers, lstVars, collVars, poolVars,
                 emitVars>>

\* The caller invokes terminate().
Terminate ==
  /\ TerminateTo("idle")
  /\ callerTerminated' = TRUE
  /\ lastOp' = "terminate"
  /\ errorCallbacks' = 0
  /\ notified' = NoneNotified
  /\ lastArg' = Null
  /\ replaced' = 0
  /\ UNCHANGED <<keepAlive, timeout, error, created, restartTimers, messagesSent,
                 messagesReceived, sinceActivity, readyFrom, seen, metVars,
                 lstVars, collVars, poolVars, emitVars>>

\* The caller invokes restart(): terminate(), then setTimeout(start, 100).
Restart ==
  /\ Len(restartTimers) < MaxPendingRestarts
  /\ TerminateTo("idle")
  /\ restartTimers' = Append(restartTimers, RestartDelay)
  /\ callerTerminated' = FALSE
  /\ lastOp' = "restart"
  /\ errorCallbacks' = 0
  /\ notified' = NoneNotified
  /\ lastArg' = Null
  /\ replaced' = 0
  /\ UNCHANGED <<keepAlive, timeout, error, created, messagesSent,
                 messagesReceived, sinceActivity, readyFrom, seen, metVars,
                 lstVars, collVars, poolVars, emitVars>>

\* The delayed start() of an earlier restart() runs.
DelayedStart(ok) ==
  /\ restartTimers # <<>>
  /\ Head(restartTimers) = 0
  /\ restartTimers' = Tail(restartTimers)
  /\ StartBody(ok)
  /\ lastOp' = IF ok THEN "delayedStart" ELSE "delayedStartFailed"
  /\ UNCHANGED <<keepAlive, timeout, callerTerminated, lstVars, collVars,
                 poolVars, emitVars>>

\* (mutant) a postMessage that forwards a PING whatever it was given.
ForwardAsPing(ch, message) == Append(ch, [type |-> "PING"])

\* worker.current.postMessage(message)
Forward(ch, message) == Append(ch, message)

\* The caller invokes postMessage(message).
PostMessage(message) ==
  /\ lastOp' = "postMessage"
  /\ lastArg' = message.type
  /\ IF worker = 0
     THEN UNCHANGED <<messagesSent, sinceActivity, idleTimerRef,
                      pendingMessagesRef, channel>>
     ELSE /\ messagesSent < MaxMsgs
          /\ pendingMessagesRef' = [size |-> pendingMessagesRef.size + 1,
                                    latest |-> TRUE]
          /\ messagesSent' = messagesSent + 1
          /\ sinceActivity' = 0
          /\ channel' = Forward(channel, message)
          /\ idleTimerRef' = ResetIdleTimer(idleTimerRef)
  /\ errorCallbacks' = 0
  /\ notified' = NoneNotified
  /\ replaced' = 0
  /\ UNCHANGED <<keepAlive, timeout, status, error, worker, aliveInstances, created,
                 messageHandlerRef, timeoutRef, restartTimers, messagesReceived,
                 readyFrom, callerTerminated, seen, responseTimes,
                 averageResponseTime, recentResponses, throughputPerMin,
                 lstVars, collVars, poolVars, emitVars>>

\* The caller invokes onMessage(handler): the handler joins the Set and a
\* de-registration function for it is returned.
OnMessage(handler) ==
  /\ listenersRef' = listenersRef \cup {handler}
  /\ unsubscribers' = unsubscribers \cup {handler}
  /\ lastOp' = "onMessage"
  /\ lastArg' = handler
  /\ errorCallbacks' = 0
  /\ notified' = NoneNotified
  /\ replaced' = 0
  /\ UNCHANGED <<keepAlive, timeout, status, error, worker, aliveInstances, created,
                 messageHandlerRef, timeoutRef, idleTimerRef, restartTimers,
                 messagesSent, messagesReceived, sinceActivity, readyFrom,
                 callerTerminated, seen, metVars, channel, collVars, poolVars,
                 emitVars>>

\* listenersRef.current.delete(handler)
DeleteListener(set, handler) == set \ {handler}

\* The caller invokes a de-registration function onMessage(handler) returned.
Unsubscribe(handler) ==
  /\ handler \in unsubscribers
  /\ listenersRef' = DeleteListener(listenersRef, handler)
  /\ lastOp' = "unsubscribe"
  /\ lastArg' = handler
  /\ errorCallbacks' = 0
  /\ notified' = NoneNotified
  /\ replaced' = 0
  /\ UNCHANGED <<keepAlive, timeout, status, error, worker, aliveInstances, created,
                 messageHandlerRef, timeoutRef, idleTimerRef, restartTimers,
                 messagesSent, messagesReceived, sinceActivity, readyFrom,
                 callerTerminated, seen, metVars, unsubscribers, channel,
                 collVars, poolVars, emitVars>>

\* (mutant) a handler that leaves the init-timeout timer pending.
ClearTimeoutKeepsTimer(t) == t

\* if (timeoutRef.current) { clearTimeout(...); timeoutRef.current = null }
ClearTimeout(t) == NoTimer

\* (mutant) a switch that also reports running on a result message.
StatusAfterRunningOnResult(m) ==
  CASE m.type \in {"READY", "PONG", "ACTED"} -> "running"
    [] m.type = "ERROR" -> "error"
    [] m.type = "WARNING" -> "warning"
    [] m.type = "TERMINATED" -> "idle"
    [] m.type = "HEALTH" -> IF m.status = "degraded" THEN "warning" ELSE status
    [] OTHER -> status

\* The status the switch of messageHandler leaves for message m.
StatusAfter(m) ==
  CASE m.type = "READY" -> "running"
    [] m.type = "ERROR" -> "error"
    [] m.type = "WARNING" -> "warning"
    [] m.type = "TERMINATED" -> "idle"
    [] m.type = "HEALTH" -> IF m.status = "degraded" THEN "warning" ELSE status
    [] OTHER -> status

\* (mutant) an error path that sets the error state without terminate().
FatalErrorKeepsWorker(reason) ==
  /\ error' = reason
  /\ errorCallbacks' = 1
  /\ status' = "error"
  /\ timeoutRef' = NoTimer
  /\ idleTimerRef' = ResetIdleTimer(idleTimerRef)
  /\ UNCHANGED <<worker, aliveInstances, messageHandlerRef, channel>>

\* setError(reason); callbacks.onError(reason); terminate(); setStatus('error'):
\* the ERROR case of messageHandler and the init-timeout callback.
FatalError(reason) ==
  /\ error' = reason
  /\ errorCallbacks' = 1
  /\ TerminateTo("error")

\* History: message m counted by its type.
Count(c, m) ==
  LET d == IF m.type \in ResultTypes THEN [c EXCEPT !.result = @ + 1] ELSE c
  IN IF m.type = "READY" THEN [d EXCEPT !.ready = @ + 1]
     ELSE IF m.type = "PONG" THEN [d EXCEPT !.pong = @ + 1]
     ELSE [d EXCEPT !.other = @ + 1]

\* The response-time and throughput accounting of messageHandler for a result
\* message: a latency sample if the latest send is still pending, then the
\* entry of recentResponses, the prune loop and throughputPerMin.
TrackResponse(m) ==
  IF m.type \in ResultTypes
  THEN /\ IF pendingMessagesRef.latest
          THEN /\ responseTimes' = responseTimes + 1
               /\ pendingMessagesRef' = [size |-> pendingMessagesRef.size - 1,
                                         latest |-> FALSE]
               /\ averageResponseTime' = Average
          ELSE UNCHANGED <<responseTimes, pendingMessagesRef, averageResponseTime>>
       /\ \E kept \in Pruned(recentResponses) :
            /\ recentResponses' = kept
            /\ throughputPerMin' = kept
  ELSE UNCHANGED metVars

\* messageHandler(event): the supervisor processes outbound message m of the
\* worker it holds.
Message(m) ==
  /\ worker # 0
  /\ messageHandlerRef = worker
  /\ worker \in aliveInstances
  /\ messagesReceived < MaxMsgs
  /\ messagesReceived' = messagesReceived + 1
  /\ sinceActivity' = 0
  /\ TrackResponse(m)
  /\ IF m.type = "ERROR"
     THEN FatalError("reason")
     ELSE /\ error' = error
          /\ errorCallbacks' = 0
          /\ status' = StatusAfter(m)
          /\ timeoutRef' = ClearTimeout(timeoutRef)
          /\ idleTimerRef' = ResetIdleTimer(idleTimerRef)
          /\ UNCHANGED <<worker, aliveInstances, messageHandlerRef, channel>>
  /\ Notify(m)
  /\ readyFrom' = IF m.type = "READY" THEN worker ELSE readyFrom
  /\ seen' = Count(seen, m)
  /\ lastOp' = m.type
  /\ lastArg' = Null
  /\ replaced' = 0
  /\ UNCHANGED <<keepAlive, timeout, created, restartTimers, messagesSent,
                 callerTerminated, lstVars, collVars, poolVars, emitVars>>

\* The init-timeout timer fires.
InitTimeoutFires ==
  /\ timeoutRef = 0
  /\ FatalError("Worker initialization timeout")
  /\ lastOp' = "initTimeout"
  /\ notified' = NoneNotified
  /\ lastArg' = Null
  /\ replaced' = 0
  /\ UNCHANGED <<keepAlive, timeout, created, restartTimers, messagesSent,
                 messagesReceived, sinceActivity, readyFrom, callerTerminated,
                 seen, metVars, lstVars, collVars, poolVars, emitVars>>

\* The idle timer fires: terminate() if a worker is held.
IdleTimerFires ==
  /\ idleTimerRef = 0
  /\ IF worker # 0
     THEN TerminateTo("idle")
     ELSE /\ idleTimerRef' = NoTimer
          /\ UNCHANGED <<status, timeoutRef, messageHandlerRef, aliveInstances,
                         worker, channel>>
  /\ lastOp' = "idleTimeout"
  /\ errorCallbacks' = 0
  /\ notified' = NoneNotified
  /\ lastArg' = Null
  /\ replaced' = 0
  /\ UNCHANGED <<keepAlive, timeout, error, created, restartTimers, messagesSent,
                 messagesReceived, sinceActivity, readyFrom, callerTerminated,
                 seen, metVars, lstVars, collVars, poolVars, emitVars>>

\* One time unit passes: no pending timer is due.
TimerTick(t) == IF t = NoTimer THEN NoTimer ELSE t - 1

Tick ==
  /\ timeoutRef # 0
  /\ idleTimerRef # 0
  /\ \A k \in 1..Len(restartTimers) : restartTimers[k] # 0
  /\ timeoutRef' = TimerTick(timeoutRef)
  /\ idleTimerRef' = TimerTick(idleTimerRef)
  /\ restartTimers' = [k \in 1..Len(restartTimers) |-> restartTimers[k] - 1]
  /\ sinceActivity' = Later(sinceActivity)
  /\ lastOp' = "tick"
  /\ errorCallbacks' = 0
  /\ notified' = NoneNotified
  /\ lastArg' = Null
  /\ replaced' = 0
  /\ UNCHANGED <<keepAlive, timeout, status, error, worker, aliveInstances, created,
                 messageHandlerRef, messagesSent, messagesReceived, readyFrom,
                 callerTerminated, seen, metVars, lstVars, channel, collVars,
                 poolVars, emitVars>>

\* The refs and the state of a supervisor no message has reached since its
\* construction or its last start().
FreshBookkeeping ==
  /\ pendingMessagesRef = NoPending
  /\ responseTimes = 0
  /\ averageResponseTime = ZeroAverage
  /\ recentResponses = 0
  /\ throughputPerMin = Undefined
  /\ listenersRef = {}
  /\ unsubscribers = {}
  /\ notified = NoneNotified
  /\ lastArg = Null
  /\ replaced = 0

InitSupervisorWith(ka, to) ==
  /\ keepAlive = ka
  /\ timeout = to
  /\ status = "idle"
  /\ error = Null
  /\ worker = 0
  /\ aliveInstances = {}
  /\ created = 0
  /\ messageHandlerRef = 0
  /\ timeoutRef = NoTimer
  /\ idleTimerRef = NoTimer
  /\ restartTimers = <<>>
  /\ messagesSent = 0
  /\ messagesReceived = 0
  /\ sinceActivity = 0
  /\ readyFrom = 0
  /\ callerTerminated = FALSE
  /\ lastOp = "init"
  /\ seen = NoneSeen
  /\ errorCallbacks = 0
  /\ channel = <<>>
  /\ FreshBookkeeping

\* The worker raises an error event (a script or transport fault).  useWorker
\* attaches a 'message' listener only, so no handler of the supervisor runs.
FaultEvent ==
  /\ worker # 0
  /\ worker \in aliveInstances
  /\ lastOp' = "fault"
  /\ errorCallbacks' = 0
  /\ notified' = NoneNotified
  /\ lastArg' = Null
  /\ replaced' = 0
  /\ UNCHANGED <<keepAlive, timeout, status, error, worker, aliveInstances, created,
                 messageHandlerRef, timeoutRef, idleTimerRef, restartTimers,
                 messagesSent, messagesReceived, sinceActivity, readyFrom,
                 callerTerminated, seen, metVars, lstVars, channel, collVars,
                 poolVars, emitVars>>

(***************************************************************************)
(* Streaming worker: chunkByCount, WorkerDataStream, the 'stream' action   *)
(***************************************************************************)
\* (mutant) a slice that includes the item at its end index.
SliceInclusive(data, i, j) ==
  SubSeq(data, i + 1, IF j + 1 < Len(data) THEN j + 1 ELSE Len(data))

\* data.slice(i, j)
Slice(data, i, j) ==
  SubSeq(data, i + 1, IF j < Len(data) THEN j ELSE Len(data))

\* The loop of chunkByCount: for (i = 0; i < data.length; i += itemsPerChunk).
RECURSIVE ChunkLoop(_, _, _)
ChunkLoop(data, i, itemsPerChunk) ==
  IF i < Len(data)
  THEN <<Slice(data, i, i + itemsPerChunk)>>
         \o ChunkLoop(data, i + itemsPerChunk, itemsPerChunk)
  ELSE <<>>

\* chunkByCount(data, itemsPerChunk)
ChunkByCount(data, itemsPerChunk) ==
  LET chunks == ChunkLoop(data, 0, itemsPerChunk)
  IN IF Len(chunks) > 0 THEN chunks ELSE << <<>> >>

LogMessage == [type |-> "LOG"]

\* ---- chunkBySize and estimateSize ----
\* The items of the arrays given to the chunking functions: numbers whose
\* JSON texts have one, two and three characters.
Items == {7, 42, 365}

RECURSIVE SeqsUpTo(_, _)
SeqsUpTo(S, len) ==
  IF len = 0 THEN {<<>>}
  ELSE LET shorter == SeqsUpTo(S, len - 1)
       IN shorter \cup { Append(q, x) : q \in { r \in shorter : Len(r) = len - 1 },
                                         x \in S }

\* The arrays of at most MaxLen items.
ItemArrays == SeqsUpTo(Items, MaxLen)

\* JSON.stringify(item).length for a number below 1000
JsonLength(item) == IF item < 10 THEN 1 ELSE IF item < 100 THEN 2 ELSE 3

RECURSIVE JsonLengths(_)
JsonLengths(items) ==
  IF items = <<>> THEN 0 ELSE JsonLength(Head(items)) + JsonLengths(Tail(items))

\* JSON.stringify(array).length: the brackets, the items, the commas
JsonLengthOfArray(items) ==
  2 + JsonLengths(items) + (IF Len(items) > 1 THEN Len(items) - 1 ELSE 0)

\* estimateSize(data) for an item and for an array of items: 2 bytes per
\* character of the JSON text.
EstimateSize(item) == JsonLength(item) * 2
EstimateSizeOfArray(items) == JsonLengthOfArray(items) * 2

\* The loop of chunkBySize over the items left, with the chunks closed so
\* far, the open chunk and its running size; then the push of the last chunk.
RECURSIVE SizeLoop(_, _, _, _, _)
SizeLoop(data, maxChunkSize, chunks, currentChunk, currentSize) ==
  IF data = <<>>
  THEN IF Len(currentChunk) > 0 THEN Append(chunks, currentChunk) ELSE chunks
  ELSE LET item == Head(data)
           itemSize == EstimateSize(item)
       IN IF currentSize + itemSize > maxChunkSize /\ Len(currentChunk) > 0
          THEN SizeLoop(Tail(data), maxChunkSize, Append(chunks, currentChunk),
                        <<item>>, itemSize)
          ELSE SizeLoop(Tail(data), maxChunkSize, chunks,
                        Append(currentChunk, item), currentSize + itemSize)

\* chunkBySize(data, maxChunkSize); maxChunkSize = 0 stands for an omitted
\* argument as well: !maxChunkSize holds for undefined and for 0.
ChunkBySize(data, maxChunkSize) ==
  IF maxChunkSize = 0
  THEN [k \in 1..Len(data) |-> <<data[k]>>]
  ELSE LET chunks == SizeLoop(data, maxChunkSize, <<>>, <<>>, 0)
       IN IF Len(chunks) > 0 THEN chunks ELSE << <<>> >>

\* No chunking function has been called / has returned.
NoResult == [done |-> FALSE, chunks |-> <<>>]

\* The calls of the chunking functions: chunkByCount(data, itemsPerChunk) with
\* itemsPerChunk >= 1 and chunkBySize(data, maxChunkSize).
ChunkCalls ==
  { [fn |-> "chunkByCount", data |-> A, arg |-> n] :
      A \in ItemArrays, n \in 1..MaxPerChunk }
  \cup { [fn |-> "chunkBySize", data |-> A, arg |-> L] :
           A \in ItemArrays, L \in 0..MaxBytes }

\* chunkByCount(data, itemsPerChunk) returns.
CallChunkByCount ==
  /\ chunkCall.fn = "chunkByCount"
  /\ ~chunkResult.done
  /\ chunkResult' = [done |-> TRUE,
                     chunks |-> ChunkByCount(chunkCall.data, chunkCall.arg)]
  /\ UNCHANGED <<chunkCall, source, dataStreams, activeStreams, cleanupTimer,
                 stopsHandled, wire, observed, streamCallbacks, collVars, supVars, poolVars>>

\* chunkBySize(data, maxChunkSize) returns.
CallChunkBySize ==
  /\ chunkCall.fn = "chunkBySize"
  /\ ~chunkResult.done
  /\ chunkResult' = [done |-> TRUE,
                     chunks |-> ChunkBySize(chunkCall.data, chunkCall.arg)]
  /\ UNCHANGED <<chunkCall, source, dataStreams, activeStreams, cleanupTimer,
                 stopsHandled, wire, observed, streamCallbacks, collVars, supVars, poolVars>>

\* ---- WorkerDataStream and the worker's stream and stop actions ----
\* The stream ids of the worker's actions.
EmitIds == {"s1"}

\* stop() has not been called on the object by its owner.
NotStopped == [called |-> FALSE, sent |-> 0, currentIndex |-> 0]

\* new WorkerDataStream(WORKER_ID, streamId, options).  Beside the fields of
\* the object (streamId, chunks, currentIndex, intervalId, with the time left
\* to the interval's next tick, and whether options.onProgress was given, as
\* the streaming worker does) a record keeps three history fields: the
\* stream messages the object has sent, the ticks of its interval, and what
\* it had sent and where its cursor was when its owner called stop().
NewStream(streamId) ==
  [streamId |-> streamId, chunks |-> <<>>, currentIndex |-> 0,
   intervalId |-> FALSE, due |-> NoTimer, onProgress |-> TRUE, sent |-> <<>>,
   ticks |-> 0, stoppedAt |-> NotStopped]

\* (mutant) chunk messages numbered from one.
ChunkMessageOneBased(o) ==
  [type |-> "STREAM_CHUNK", streamId |-> o.streamId,
   chunkIndex |-> o.currentIndex + 1, totalChunks |-> Len(o.chunks),
   data |-> o.chunks[o.currentIndex + 1]]

\* sendStreamChunk for the chunk at the cursor of object o
ChunkMessage(o) ==
  [type |-> "STREAM_CHUNK", streamId |-> o.streamId,
   chunkIndex |-> o.currentIndex, totalChunks |-> Len(o.chunks),
   data |-> o.chunks[o.currentIndex + 1]]

\* sendStreamComplete
CompleteMessage(streamId) == [type |-> "STREAM_COMPLETE", streamId |-> streamId]

\* History: a stream message as the object's sent field records it.
Sent(m) ==
  [type |-> m.type,
   chunkIndex |-> IF m.type = "STREAM_CHUNK" THEN m.chunkIndex ELSE -1,
   totalChunks |-> IF m.type = "STREAM_CHUNK" THEN m.totalChunks ELSE -1]

\* (mutant) a stop() that leaves the interval running.
WsStopKeepsInterval(o) == o

\* WorkerDataStream.stop(): clearInterval, intervalId = null.
WsStop(o) == [o EXCEPT !.intervalId = FALSE, !.due = NoTimer]

\* stop() called by the owner of the object (the worker's stop action, or its
\* stream action on an id already in the map).
OwnerStop(o) ==
  LET p == WsStop(o)
  IN IF o.stoppedAt.called THEN p
     ELSE [p EXCEPT !.stoppedAt = [called |-> TRUE, sent |-> Len(o.sent),
                                   currentIndex |-> o.currentIndex]]

\* WorkerDataStream.start(data) on a new object: an empty list is completed
\* at once, otherwise the interval is set.
WsStart(o, data) ==
  IF Len(data) = 0
  THEN [o EXCEPT !.chunks = data, !.currentIndex = 0,
                 !.sent = Append(@, Sent(CompleteMessage(o.streamId)))]
  ELSE [o EXCEPT !.chunks = data, !.currentIndex = 0, !.intervalId = TRUE,
                 !.due = 1]

\* The messages start(data) sends.
WsStartSends(o, data) ==
  IF Len(data) = 0 THEN <<CompleteMessage(o.streamId)>> ELSE <<>>

\* Map.set and Map.delete on activeStreams
MapSet(map, key, value) ==
  [x \in DOMAIN map \cup {key} |-> IF x = key THEN value ELSE map[x]]
MapDelete(map, key) == [x \in DOMAIN map \ {key} |-> map[x]]

\* The arrays a stream action may carry: <<1, ..., len>>.
Arrays == { [k \in 1..len |-> k] : len \in 0..MaxItems }

\* No stream action has been handled yet.
NoSource == [given |-> FALSE, data |-> <<>>, itemsPerChunk |-> 0]

\* The worker's handler of the 'stream' action with streamId, data A and
\* itemsPerChunk n (no chunkSize, the default intervalMs): a stream of the id
\* that is in the map is stopped and removed, the data is chunked by count, a
\* WorkerDataStream is created, registered and started on the chunks, and the
\* clean-up timer is set to intervalMs * chunks.length + 500.
StreamAction(streamId, A, n) ==
  /\ Len(dataStreams) < MaxStreams
  /\ source' = [given |-> TRUE, data |-> A, itemsPerChunk |-> n]
  /\ LET existing == IF streamId \in DOMAIN activeStreams
                     THEN [dataStreams EXCEPT ![activeStreams[streamId]] =
                                                OwnerStop(@)]
                     ELSE dataStreams
         chunks == ChunkByCount(A, n)
         stream == NewStream(streamId)
     IN /\ dataStreams' = Append(existing, WsStart(stream, chunks))
        /\ activeStreams' = MapSet(MapDelete(activeStreams, streamId), streamId,
                                   Len(dataStreams) + 1)
        /\ wire' = wire \o <<LogMessage, LogMessage>> \o WsStartSends(stream, chunks)
        /\ cleanupTimer' = Append(cleanupTimer, Len(chunks) + CleanupDelay)
  /\ UNCHANGED <<stopsHandled, observed, streamCallbacks, chunkCall, chunkResult, collVars,
                 supVars, poolVars>>

\* streamData(workerId, streamId, data): a WorkerDataStream without options
\* is created and started on the chunk list data.
StreamData(streamId, data) ==
  /\ Len(dataStreams) < MaxStreams
  /\ LET stream == [NewStream(streamId) EXCEPT !.onProgress = FALSE]
     IN /\ dataStreams' = Append(dataStreams, WsStart(stream, data))
        /\ wire' = wire \o WsStartSends(stream, data)
        /\ cleanupTimer' = Append(cleanupTimer, NoTimer)
  /\ UNCHANGED <<source, activeStreams, stopsHandled, observed, streamCallbacks,
                 chunkCall, chunkResult, collVars, supVars, poolVars>>

\* The worker's handler of the 'stop' action with streamId: the stream of the
\* id in the map is stopped and removed; either way a LOG is sent.
StopAction(streamId) ==
  /\ stopsHandled < MaxStops
  /\ stopsHandled' = stopsHandled + 1
  /\ IF streamId \in DOMAIN activeStreams
     THEN /\ dataStreams' = [dataStreams EXCEPT ![activeStreams[streamId]] =
                                                  OwnerStop(@)]
          /\ activeStreams' = MapDelete(activeStreams, streamId)
     ELSE UNCHANGED <<dataStreams, activeStreams>>
  /\ wire' = Append(wire, LogMessage)
  /\ UNCHANGED <<source, cleanupTimer, observed, streamCallbacks, chunkCall, chunkResult,
                 collVars, supVars, poolVars>>

\* this.currentIndex >= this.chunks.length
Exhausted(o) == o.currentIndex >= Len(o.chunks)

\* The setInterval callback of WorkerDataStream.start for object k: past the
\* last chunk it stops and sends STREAM_COMPLETE; otherwise it sends the chunk
\* at the cursor, advances the cursor and reports progress (the worker's
\* onProgress sends a LOG).
IntervalTick(k) ==
  /\ k <= Len(dataStreams)
  /\ dataStreams[k].intervalId
  /\ dataStreams[k].due = 0
  /\ LET o == [dataStreams[k] EXCEPT !.ticks = @ + 1]
     IN IF Exhausted(o)
        THEN /\ dataStreams' =
                  [dataStreams EXCEPT ![k] =
                     [WsStop(o) EXCEPT
                        !.sent = Append(@, Sent(CompleteMessage(o.streamId)))]]
             /\ wire' = Append(wire, CompleteMessage(o.streamId))
        ELSE /\ dataStreams' =
                  [dataStreams EXCEPT ![k] =
                     [o EXCEPT !.sent = Append(@, Sent(ChunkMessage(o))),
                               !.currentIndex = @ + 1, !.due = 1]]
             /\ wire' = wire \o <<ChunkMessage(o)>>
                          \o (IF o.onProgress THEN <<LogMessage>> ELSE <<>>)
  /\ UNCHANGED <<source, activeStreams, cleanupTimer, stopsHandled, observed, streamCallbacks,
                 chunkCall, chunkResult, collVars, supVars, poolVars>>

\* The clean-up timer of the k-th stream action: if the stream that action
\* created is inactive, the action's streamId is removed from the map and a
\* LOG is sent.
CleanupFires(k) ==
  /\ k <= Len(dataStreams)
  /\ cleanupTimer[k] = 0
  /\ cleanupTimer' = [cleanupTimer EXCEPT ![k] = NoTimer]
  /\ IF ~dataStreams[k].intervalId
     THEN /\ activeStreams' = MapDelete(activeStreams, dataStreams[k].streamId)
          /\ wire' = Append(wire, LogMessage)
     ELSE UNCHANGED <<activeStreams, wire>>
  /\ UNCHANGED <<source, dataStreams, stopsHandled, observed, streamCallbacks, chunkCall,
                 chunkResult, collVars, supVars, poolVars>>

\* One interval period (intervalMs) passes in the worker: no timer is due.
EmitTime ==
  /\ \A k \in 1..Len(dataStreams) :
       dataStreams[k].due # 0 /\ cleanupTimer[k] # 0
  /\ \E k \in 1..Len(dataStreams) :
       dataStreams[k].due # NoTimer \/ cleanupTimer[k] # NoTimer
  /\ dataStreams' = [k \in 1..Len(dataStreams) |->
                       [dataStreams[k] EXCEPT !.due = TimerTick(@)]]
  /\ cleanupTimer' = [k \in 1..Len(cleanupTimer) |-> TimerTick(cleanupTimer[k])]
  /\ UNCHANGED <<source, activeStreams, stopsHandled, wire, observed, streamCallbacks, chunkCall,
                 chunkResult, collVars, supVars, poolVars>>

\* The message types that carry a streamId.
StreamTypes == {"STREAM_CHUNK", "STREAM_COMPLETE", "STREAM_ERROR"}

\* The STREAM_CHUNK case of messageHandler: addChunk(chunk), inside which the
\* collector's completion callback invokes callbacks.onStreamComplete, and
\* then callbacks.onStreamChunk.
StreamChunkCallbacks(log, strs, chunk) ==
  LET afterAddChunk ==
        IF AddChunkReturn(strs, chunk)
        THEN Append(log, [cb |-> "onStreamComplete", streamId |-> chunk.id,
                          chunkIndex |-> -1, totalChunks |-> chunk.totalChunks])
        ELSE log
  IN Append(afterAddChunk,
            [cb |-> "onStreamChunk", streamId |-> chunk.id,
             chunkIndex |-> chunk.chunkIndex, totalChunks |-> chunk.totalChunks])

\* messageHandler(event) for the oldest message m of the streaming worker: the
\* metrics, the timers, then the switch, whose STREAM_CHUNK case hands the
\* chunk to the collector; LOG and STREAM_COMPLETE leave the state alone.
StreamMessage ==
  /\ wire # <<>>
  /\ worker # 0
  /\ messageHandlerRef = worker
  /\ worker \in aliveInstances
  /\ LET m == Head(wire)
     IN /\ wire' = Tail(wire)
        /\ observed' = Append(observed,
                              [type |-> m.type,
                               streamId |-> IF m.type \in StreamTypes
                                            THEN m.streamId ELSE Null,
                               chunkIndex |-> IF m.type = "STREAM_CHUNK"
                                              THEN m.chunkIndex ELSE -1])
        /\ messagesReceived' = messagesReceived + 1
        /\ sinceActivity' = 0
        /\ timeoutRef' = ClearTimeout(timeoutRef)
        /\ idleTimerRef' = ResetIdleTimer(idleTimerRef)
        /\ seen' = Count(seen, m)
        /\ lastOp' = m.type
        /\ errorCallbacks' = 0
        /\ TrackResponse(m)
        /\ Notify(m)
        /\ lastArg' = Null
        /\ replaced' = 0
        /\ IF m.type = "STREAM_CHUNK"
           THEN LET chunk == [id |-> m.streamId, chunkIndex |-> m.chunkIndex,
                              totalChunks |-> m.totalChunks, data |-> m.data]
                IN /\ streams' = AddChunkStreams(streams, chunk)
                   /\ completions' = AddChunkCompletions(streams, completions, chunk)
                   /\ calls' = Append(calls,
                        [id |-> chunk.id, chunkIndex |-> chunk.chunkIndex,
                         totalChunks |-> chunk.totalChunks, data |-> chunk.data,
                         ret |-> AddChunkReturn(streams, chunk),
                         before |-> IF chunk.id \in DOMAIN streams
                                    THEN DOMAIN streams[chunk.id] ELSE {},
                         after |-> DOMAIN StoreChunk(streams, chunk)[chunk.id]])
                   /\ streamCallbacks' =
                        StreamChunkCallbacks(streamCallbacks, streams, chunk)
           ELSE UNCHANGED <<collVars, streamCallbacks>>
  /\ UNCHANGED <<keepAlive, timeout, status, error, worker, aliveInstances, created,
                 messageHandlerRef, restartTimers, messagesSent, readyFrom,
                 callerTerminated, lstVars, channel, source, dataStreams,
                 activeStreams, cleanupTimer, stopsHandled, chunkCall,
                 chunkResult, poolVars>>

\* The worker before any action, and the chunking call under examination.
InitEmitterWith(call) ==
  /\ source = NoSource
  /\ dataStreams = <<>>
  /\ activeStreams = <<>>
  /\ cleanupTimer = <<>>
  /\ stopsHandled = 0
  /\ wire = <<>>
  /\ observed = <<>>
  /\ streamCallbacks = <<>>
  /\ chunkCall = call
  /\ chunkResult = NoResult

NoCall == [fn |-> "none", data |-> <<>>, arg |-> 0]

InitEmitter == InitEmitterWith(NoCall)

\* The supervisor after start(), the worker's READY and the postMessage that
\* carries the stream action (keepAlive as by default, no timeout prop).
StreamingSupervisor ==
  /\ keepAlive = TRUE
  /\ timeout = 0
  /\ status = "running"
  /\ error = Null
  /\ worker = 1
  /\ aliveInstances = {1}
  /\ created = 1
  /\ messageHandlerRef = 1
  /\ timeoutRef = NoTimer
  /\ idleTimerRef = NoTimer
  /\ restartTimers = <<>>
  /\ messagesSent = 1
  /\ messagesReceived = 1
  /\ sinceActivity = 0
  /\ readyFrom = 1
  /\ callerTerminated = FALSE
  /\ lastOp = "postMessage"
  /\ seen = [ready |-> 1, pong |-> 0, other |-> 0, result |-> 0]
  /\ errorCallbacks = 0
  /\ channel = <<[type |-> "ACTION"]>>
  /\ FreshBookkeeping

\* One stream action, its emission, and the supervisor processing it.
NextStream ==
  \/ /\ dataStreams = <<>>
     /\ \E A \in Arrays, n \in 1..MaxPerChunk : StreamAction("s1", A, n)
  \/ \E k \in 1..MaxStreams : IntervalTick(k)
  \/ \E k \in 1..MaxStreams : CleanupFires(k)
  \/ EmitTime
  \/ StreamMessage

\* The worker alone: stream and stop actions on reused ids, the intervals and
\* the clean-up timers.
NextEmit ==
  \/ \E id \in EmitIds, A \in Arrays : StreamAction(id, A, EmitPerChunk)
  \/ \E id \in EmitIds : StopAction(id)
  \/ \E k \in 1..MaxStreams : IntervalTick(k)
  \/ \E k \in 1..MaxStreams : CleanupFires(k)
  \/ EmitTime

\* The data of the k-th emission on a streamId: the items 10k + 1, 10k + 2,
\* ..., so that the chunks of two emissions are distinguishable.
EmissionItems(k, len) == [j \in 1..len |-> 10 * k + j]
DeliverArrays ==
  {EmissionItems(k, len) : k \in 1..MaxEmissions, len \in 1..MaxDeliver}

\* Emissions on one reused streamId (stream actions at one item per chunk, a
\* stop action, streamData on an empty chunk list), and the supervisor
\* processing the worker's messages.
NextDeliver ==
  \/ \E A \in DeliverArrays :
       /\ Len(dataStreams) < MaxEmissions
       /\ A[1] = EmissionItems(Len(dataStreams) + 1, 1)[1]
       /\ StreamAction("s1", A, 1)
  \/ Len(dataStreams) < MaxEmissions /\ StreamData("s1", <<>>)
  \/ \E id \in EmitIds : StopAction(id)
  \/ \E k \in 1..MaxStreams : IntervalTick(k)
  \/ \E k \in 1..MaxStreams : CleanupFires(k)
  \/ EmitTime
  \/ StreamMessage

\* The chunking functions applied to the call drawn initially.
NextChunk ==
  \/ CallChunkByCount
  \/ CallChunkBySize

(***************************************************************************)
(* Worker Pool Supervisor                                                  *)
(***************************************************************************)
\* The warmup prop (default true).
Warmup == TRUE

\* The values of the poolSize prop.
PoolSizes == {1, 2}

\* The record of an instance that workersRef no longer holds (terminate()
\* cleared the map, or a later start() overwrote its key).  status and busy are
\* read only through workersRef (findAvailableWorker, updateStats, the warm-up
\* loop); the closures that still refer to such an instance only write them.
\* Every such instance is therefore kept as this one value.
Unreachable(slot) == [slot |-> slot, status |-> "idle", busy |-> FALSE]

\* The messages a pool worker may send on its own; a result message (PONG,
\* ACTED) is sent by WorkerAnswers in reply to a request.
PoolOutbound ==
  { [type |-> t] : t \in {"READY", "ERROR", "WARNING", "TERMINATED", "PROGRESS",
                          "STREAM_CHUNK"} }
  \cup { [type |-> "HEALTH", status |-> h] : h \in {"healthy", "degraded"} }


\* A task before Pool.postMessage creates it.  promise, timer and reason (of
\* the rejection) are the program's; the other fields are history: the instance the task was forwarded
\* to, whether processQueue forwarded it, the request whose reply resolved it,
\* whether that reply came after the request's own timeout, whether a timer
\* callback of the task ran, whether the worker's reply to the task was
\* processed (before or after the timer), whether its worker reported an error.
NoTask ==
  [promise |-> "none", timer |-> "none", fwd |-> 0, viaQueue |-> FALSE,
   resolvedWith |-> -1, late |-> FALSE, timerFired |-> FALSE, answered |-> "no",
   workerErrored |-> FALSE, reason |-> ""]

SeqRange(q) == {q[k] : k \in 1..Len(q)}
SeqRemove(q, x) == SelectSeq(q, LAMBDA y : y # x)

\* The pool's mutable state as one value, threaded through a handler's code.
PoolState ==
  [inst |-> instances, alive |-> poolAlive, wr |-> workersRef,
   queue |-> taskQueueRef, tasks |-> tasks, lst |-> listeners, inbox |-> inbox,
   status |-> poolStatus, avail |-> availableWorkers, qlen |-> queueLength,
   dbl |-> doubleAssigned]

\* A handler ends in pool state P.
PoolBecomes(P) ==
  /\ instances' = [i \in DOMAIN P.inst |->
                     IF i \in SeqRange(P.wr) THEN P.inst[i]
                     ELSE Unreachable(P.inst[i].slot)]
  /\ poolAlive' = P.alive
  /\ workersRef' = P.wr
  /\ taskQueueRef' = P.queue
  /\ tasks' = P.tasks
  /\ listeners' = P.lst
  /\ inbox' = P.inbox
  /\ poolStatus' = P.status
  /\ availableWorkers' = P.avail
  /\ queueLength' = P.qlen
  /\ doubleAssigned' = P.dbl

\* workersRef.current.values()
Held(P) == SeqRange(P.wr)

\* !w.busy && w.status === 'running'
IsAvailable(P, w) == ~P.inst[w].busy /\ P.inst[w].status = "running"

\* Array.from(workersRef.current.values()).find(available): 0 if none.
FindAvailable(P) ==
  LET ks == {k \in 1..Len(P.wr) : IsAvailable(P, P.wr[k])}
  IN IF ks = {} THEN 0 ELSE P.wr[MinOf(ks)]

\* (mutant) a derived status that reports error when any worker is in error.
DerivedStatusAnyError(P) ==
  LET ws == Held(P)
  IN IF ws = {} THEN "idle"
     ELSE IF \E w \in ws : P.inst[w].status = "error" THEN "error"
     ELSE IF \E w \in ws : P.inst[w].status = "running" THEN "running"
     ELSE IF \E w \in ws : P.inst[w].status = "starting" THEN "starting"
     ELSE P.status

\* The derived pool status of updateStats.
DerivedStatus(P) ==
  LET ws == Held(P)
  IN IF ws = {} THEN "idle"
     ELSE IF \A w \in ws : P.inst[w].status = "error" THEN "error"
     ELSE IF \E w \in ws : P.inst[w].status = "running" THEN "running"
     ELSE IF \E w \in ws : P.inst[w].status = "starting" THEN "starting"
     ELSE P.status

UpdateStats(P) ==
  [P EXCEPT !.avail = Cardinality({w \in Held(P) : IsAvailable(P, w)}),
            !.qlen = Len(P.queue),
            !.status = DerivedStatus(P)]

\* (mutant) a shift that takes the task enqueued last.
ShiftLast(q) == [task |-> q[Len(q)], rest |-> SubSeq(q, 1, Len(q) - 1)]

\* taskQueueRef.current.shift(): the task removed and the queue left.
Shift(q) == [task |-> Head(q), rest |-> Tail(q)]

\* The while loop of processQueue: the head of the queue goes to the first
\* available worker, which is marked busy and sent the task's message.
RECURSIVE DrainQueue(_)
DrainQueue(P) ==
  IF P.queue = <<>> THEN P
  ELSE LET w == FindAvailable(P)
           t == Shift(P.queue).task
       IN IF w = 0 THEN P
          ELSE DrainQueue([P EXCEPT !.queue = Shift(@).rest,
                                    !.inst[w].busy = TRUE,
                                    !.inbox[w] = Append(@, t),
                                    !.tasks[t].fwd = w,
                                    !.tasks[t].viaQueue = TRUE])

\* (mutant) a processQueue that only refreshes the statistics.
ProcessQueueStatsOnly(P) == UpdateStats(P)

\* processQueue: the loop, then updateStats.  History: whether this pass gave
\* one worker more than one task.
ProcessQueue(P) ==
  LET Q == DrainQueue(P)
      assigned(w) == {t \in DOMAIN Q.tasks :
                        /\ Q.tasks[t].viaQueue /\ ~P.tasks[t].viaQueue
                        /\ Q.tasks[t].fwd = w}
  IN UpdateStats([Q EXCEPT !.dbl =
       @ \/ \E w \in DOMAIN Q.inst : Cardinality(assigned(w)) > 1])

\* resolve(data) of task t with the reply to request r (0: the warm-up PING).
Resolve(P, t, r) ==
  IF P.tasks[t].promise # "pending" THEN P
  ELSE [P EXCEPT !.tasks[t].promise = "resolved",
                 !.tasks[t].resolvedWith = r,
                 !.tasks[t].late = (r # 0 /\ P.tasks[r].timerFired)]

\* reject(new Error(reason)) of task t.
Reject(P, t, reason) ==
  IF P.tasks[t].promise # "pending" THEN P
  ELSE [P EXCEPT !.tasks[t].promise = "rejected", !.tasks[t].reason = reason]

\* handleResponse of task t, attached to instance i, on a result message that
\* replies to request r.
HandleResponse(P, i, t, r) ==
  ProcessQueue(Resolve([P EXCEPT !.lst[i] = SeqRemove(@, t),
                                 !.tasks[t].timer = "none",
                                 !.inst[i].busy = FALSE], t, r))

\* The handleResponse listeners attached to i when the event was dispatched
\* run in the order they were attached.
RECURSIVE RunResponseListeners(_, _, _, _)
RunResponseListeners(P, i, ts, r) ==
  IF ts = <<>> THEN P
  ELSE RunResponseListeners(
         IF Head(ts) \in SeqRange(P.lst[i]) THEN HandleResponse(P, i, Head(ts), r)
         ELSE P,
         i, Tail(ts), r)

\* ERROR case: taskQueueRef.current.find(t => !t.timeout) is rejected (and
\* stays queued); every queued task has a timeout when the prop is non-zero.
RejectErrorTask(P) ==
  IF ~poolTimeout /\ P.queue # <<>> THEN Reject(P, Head(P.queue), "worker error")
  ELSE P

\* History: the worker of these pending tasks reported an error.
MarkErrored(P, i) ==
  [P EXCEPT !.tasks = [t \in DOMAIN P.tasks |->
     IF P.tasks[t].fwd = i /\ P.tasks[t].promise = "pending"
     THEN [P.tasks[t] EXCEPT !.workerErrored = TRUE] ELSE P.tasks[t]]]

\* Whether the default case of the instance listener releases the worker.
ReleasesWorker(m) ==
  m.type \notin {"READY", "ERROR", "WARNING", "TERMINATED", "HEALTH", "PROGRESS",
                 "LOG"}

\* The message listener createWorker attaches to instance i, on message m.
InstanceListener(P, i, m) ==
  UpdateStats(
    CASE m.type = "READY" ->
           ProcessQueue([P EXCEPT !.inst[i].status = "running",
                                  !.inst[i].busy = FALSE])
      [] m.type = "ERROR" ->
           RejectErrorTask(MarkErrored([P EXCEPT !.inst[i].status = "error",
                                                 !.inst[i].busy = FALSE], i))
      [] m.type = "TERMINATED" ->
           [P EXCEPT !.inst[i].status = "idle", !.inst[i].busy = FALSE]
      [] m.type = "HEALTH" ->
           IF m.status = "degraded" THEN [P EXCEPT !.inst[i].status = "warning"]
           ELSE P
      [] ReleasesWorker(m) ->
           ProcessQueue([P EXCEPT !.inst[i].busy = FALSE])
      [] OTHER -> P)

\* Pool.start(): poolSize workers are constructed (the Worker constructor
\* succeeds) and set into workersRef under worker-0 .. worker-(poolSize-1),
\* replacing the instances held under these keys; a warm-up timer is started.
PoolStart ==
  /\ Len(instances) + poolSize <= MaxPoolInstances
  /\ LET n == Len(instances)
         grow(f, v) == [k \in 1..(n + poolSize) |-> IF k <= n THEN f[k] ELSE v]
         P == [PoolState EXCEPT
                 !.inst = [k \in 1..(n + poolSize) |->
                             IF k <= n THEN instances[k]
                             ELSE [slot |-> k - n - 1, status |-> "starting",
                                   busy |-> FALSE]],
                 !.alive = @ \cup ((n + 1)..(n + poolSize)),
                 !.wr = [k \in 1..poolSize |-> n + k],
                 !.lst = grow(listeners, <<>>),
                 !.inbox = grow(inbox, <<>>),
                 !.status = "starting"]
     IN PoolBecomes(UpdateStats(P))
  /\ warmupTimers' = IF Warmup THEN warmupTimers + 1 ELSE warmupTimers
  /\ UNCHANGED <<poolSize, poolTimeout, collVars, supVars, emitVars>>

\* The warm-up timer of start() fires: PING to every held running worker.
WarmupFires ==
  /\ warmupTimers > 0
  /\ warmupTimers' = warmupTimers - 1
  /\ inbox' = [i \in DOMAIN inbox |->
                 IF i \in SeqRange(workersRef) /\ instances[i].status = "running"
                 THEN Append(inbox[i], 0) ELSE inbox[i]]
  /\ UNCHANGED <<poolSize, poolTimeout, instances, poolAlive, workersRef,
                 taskQueueRef, tasks, listeners, poolStatus, availableWorkers,
                 queueLength, doubleAssigned, collVars, supVars, emitVars>>

\* The tasks created so far are 1..Submitted.
Submitted == Cardinality({t \in DOMAIN tasks : tasks[t].promise # "none"})

\* Pool.postMessage(message): the new task goes to the first available worker
\* (with a response listener and a timeout) or to the queue (with a timeout).
PoolPostMessage ==
  /\ Submitted < MaxTasks
  /\ LET t == Submitted + 1
         w == FindAvailable(PoolState)
         P == IF w # 0
              THEN [PoolState EXCEPT
                      !.inst[w].busy = TRUE,
                      !.inbox[w] = Append(@, t),
                      !.lst[w] = Append(@, t),
                      !.tasks[t] = [NoTask EXCEPT
                                      !.promise = "pending", !.fwd = w,
                                      !.timer = IF poolTimeout THEN "assigned"
                                                ELSE "none"]]
              ELSE [PoolState EXCEPT
                      !.queue = Append(@, t),
                      !.tasks[t] = [NoTask EXCEPT
                                      !.promise = "pending",
                                      !.timer = IF poolTimeout THEN "queued"
                                                ELSE "none"]]
     IN PoolBecomes(UpdateStats(P))
  /\ UNCHANGED <<poolSize, poolTimeout, warmupTimers, collVars, supVars, emitVars>>

\* A live worker answers the oldest request posted to it with a result
\* message (PONG for the warm-up PING), and the pool processes that message:
\* the instance listener first, then the attached handleResponse listeners.
WorkerAnswers(i) ==
  /\ i \in poolAlive
  /\ inbox[i] # <<>>
  /\ LET r == Head(inbox[i])
         m == [type |-> IF r = 0 THEN "PONG" ELSE "ACTED"]
         P0 == [PoolState EXCEPT !.inbox[i] = Tail(@)]
         P1 == IF r = 0 THEN P0
               ELSE [P0 EXCEPT !.tasks[r].answered =
                       IF P0.tasks[r].timerFired THEN "late" ELSE "inTime"]
     IN PoolBecomes(RunResponseListeners(InstanceListener(P1, i, m), i,
                                         listeners[i], r))
  /\ UNCHANGED <<poolSize, poolTimeout, warmupTimers, collVars, supVars, emitVars>>

\* A live worker sends message m on its own and the pool processes it (the
\* handleResponse listeners ignore a message that is not a result).  A worker
\* sends READY once, when it has started; the READY of a worker that
\* workersRef no longer holds acts on the pool as a STREAM_CHUNK does.
WorkerEmits(i, m) ==
  /\ i \in poolAlive
  /\ m.type = "READY" => instances[i].status = "starting"
  /\ PoolBecomes(InstanceListener(PoolState, i, m))
  /\ UNCHANGED <<poolSize, poolTimeout, warmupTimers, collVars, supVars, emitVars>>

\* The error event listener createWorker attaches to instance i.
WorkerErrorEvent(i) ==
  /\ i \in poolAlive
  /\ PoolBecomes(UpdateStats(MarkErrored(
       [PoolState EXCEPT !.inst[i].status = "error", !.inst[i].busy = FALSE], i)))
  /\ UNCHANGED <<poolSize, poolTimeout, warmupTimers, collVars, supVars, emitVars>>

\* The timeout callback of a task that was assigned immediately.
AssignedTimeout(P, t) ==
  LET i == P.tasks[t].fwd
  IN ProcessQueue(Reject([P EXCEPT !.lst[i] = SeqRemove(@, t),
                                   !.inst[i].busy = FALSE,
                                   !.tasks[t].timer = "none",
                                   !.tasks[t].timerFired = TRUE], t, "timeout"))

\* The timeout callback of a task that was queued: it rejects the task only
\* if findIndex still finds it in the queue.
QueuedTimeout(P, t) ==
  LET Q == [P EXCEPT !.tasks[t].timer = "none", !.tasks[t].timerFired = TRUE]
  IN IF t \in SeqRange(P.queue)
     THEN Reject([Q EXCEPT !.queue = SeqRemove(@, t)], t, "timeout in queue")
     ELSE Q

\* The timer of task t fires.  All task timers run for the same timeout, so
\* they fire in the order they were started.
TaskTimerFires(t) ==
  /\ tasks[t].timer # "none"
  /\ \A u \in 1..(t - 1) : tasks[u].timer = "none"
  /\ PoolBecomes(IF tasks[t].timer = "assigned" THEN AssignedTimeout(PoolState, t)
                 ELSE QueuedTimeout(PoolState, t))
  /\ UNCHANGED <<poolSize, poolTimeout, warmupTimers, collVars, supVars, emitVars>>

\* terminate(): the queued tasks are rejected and their timers cleared, the
\* held workers terminated, the worker set cleared.
\* (mutant) the queued tasks are rejected, their timers left running.
RECURSIVE RejectQueuedKeepsTimers(_, _)
RejectQueuedKeepsTimers(P, q) ==
  IF q = <<>> THEN P
  ELSE RejectQueuedKeepsTimers(Reject(P, Head(q), "pool terminated"), Tail(q))

RECURSIVE RejectQueued(_, _)
RejectQueued(P, q) ==
  IF q = <<>> THEN P
  ELSE RejectQueued(Reject([P EXCEPT !.tasks[Head(q)].timer = "none"], Head(q),
                           "pool terminated"),
                    Tail(q))

PoolTerminate ==
  /\ LET P == RejectQueued(PoolState, taskQueueRef)
     IN PoolBecomes(UpdateStats(
          [P EXCEPT !.queue = <<>>,
                    !.alive = @ \ Held(P),
                    !.lst = [i \in DOMAIN @ |-> IF i \in Held(P) THEN <<>> ELSE @[i]],
                    !.inbox = [i \in DOMAIN @ |-> IF i \in Held(P) THEN <<>> ELSE @[i]],
                    !.wr = <<>>,
                    !.status = "idle"]))
  /\ UNCHANGED <<poolSize, poolTimeout, warmupTimers, collVars, supVars, emitVars>>

InitPoolWith(n, to) ==
  /\ poolSize = n
  /\ poolTimeout = to
  /\ instances = <<>>
  /\ poolAlive = {}
  /\ workersRef = <<>>
  /\ taskQueueRef = <<>>
  /\ tasks = [t \in 1..MaxTasks |-> NoTask]
  /\ listeners = <<>>
  /\ inbox = <<>>
  /\ warmupTimers = 0
  /\ poolStatus = "idle"
  /\ availableWorkers = 0
  /\ queueLength = 0
  /\ doubleAssigned = FALSE

\* Pool.restart() is terminate() followed, from a timer, by start(): its
\* behaviours are those of PoolTerminate followed later by PoolStart.
NextPool ==
  \/ PoolStart
  \/ WarmupFires
  \/ PoolPostMessage
  \/ \E i \in 1..MaxPoolInstances : WorkerAnswers(i)
  \/ \E i \in 1..MaxPoolInstances, m \in PoolOutbound : WorkerEmits(i, m)
  \/ \E i \in 1..MaxPoolInstances : WorkerErrorEvent(i)
  \/ \E t \in 1..MaxTasks : TaskTimerFires(t)
  \/ PoolTerminate

\* The collector alone: the supervisor and the pool stay as constructed.
InitCollectorOnly ==
  /\ InitCollector /\ InitSupervisorWith(TRUE, 0) /\ InitPoolWith(1, TRUE)
  /\ InitEmitter

\* The supervisor under every choice of the props keepAlive and timeout.
InitSupervisor ==
  \E ka \in BOOLEAN, to \in {0, InitTimeout} :
    /\ InitCollector /\ InitSupervisorWith(ka, to) /\ InitPoolWith(1, TRUE)
    /\ InitEmitter

\* The pool under every choice of the props poolSize and timeout.
InitPool ==
  \E n \in PoolSizes, to \in BOOLEAN :
    /\ InitCollector /\ InitSupervisorWith(TRUE, 0) /\ InitPoolWith(n, to)
    /\ InitEmitter

\* A running supervisor whose worker is about to handle a stream action.
InitStream ==
  InitCollector /\ StreamingSupervisor /\ InitPoolWith(1, TRUE) /\ InitEmitter

\* The streaming worker of a running supervisor, before any action.
InitEmit ==
  InitCollector /\ StreamingSupervisor /\ InitPoolWith(1, TRUE) /\ InitEmitter

\* A running supervisor and its worker, before any emission.
InitDeliver ==
  InitCollector /\ StreamingSupervisor /\ InitPoolWith(1, TRUE) /\ InitEmitter

\* A call of a chunking function about to be evaluated.
InitChunk ==
  \E call \in ChunkCalls :
    /\ InitCollector /\ InitSupervisorWith(TRUE, 0) /\ InitPoolWith(1, TRUE)
    /\ InitEmitterWith(call)

\* A supervisor with the default props (keepAlive, no timeout), for the
\* listener registry.
InitListeners ==
  InitCollector /\ InitSupervisorWith(TRUE, 0) /\ InitPoolWith(1, TRUE) /\ InitEmitter

\* start(), terminate(), the worker's messages, and the callers' onMessage
\* and de-registration calls.
NextListeners ==
  \/ Start(TRUE)
  \/ Terminate
  \/ \E handler \in Handlers : OnMessage(handler)
  \/ \E handler \in Handlers : Unsubscribe(handler)
  \/ \E m \in Outbound : Message(m)

SpecListeners == InitListeners /\ [][NextListeners]_vars

NextSupervisor ==
  \/ \E ok \in BOOLEAN : Start(ok)
  \/ Terminate
  \/ Restart
  \/ \E ok \in BOOLEAN : DelayedStart(ok)
  \/ \E message \in Inbound : PostMessage(message)
  \/ \E m \in Outbound : Message(m)
  \/ InitTimeoutFires
  \/ IdleTimerFires
  \/ FaultEvent
  \/ Tick

SpecCollector == InitCollectorOnly /\ [][NextCollector]_vars

SpecSupervisor == InitSupervisor /\ [][NextSupervisor]_vars

SpecPool == InitPool /\ [][NextPool]_vars

SpecStream == InitStream /\ [][NextStream]_vars

SpecEmit == InitEmit /\ [][NextEmit]_vars

SpecChunk == InitChunk /\ [][NextChunk]_vars

SpecDeliver == InitDeliver /\ [][NextDeliver]_vars

(***************************************************************************)
(* Properties of the Worker Pool Supervisor                                *)
(***************************************************************************)
TaskIds == {t \in DOMAIN tasks : tasks[t].promise # "none"}

\* Task t was forwarded to instance i and is still in flight there: the worker
\* has not answered it, its promise is not settled, no timer callback of the
\* task has run and the worker has not reported an error since.
InFlightOn(t, i) ==
  /\ tasks[t].fwd = i
  /\ tasks[t].promise = "pending"
  /\ tasks[t].answered = "no"
  /\ ~tasks[t].timerFired
  /\ ~tasks[t].workerErrored

\* C1: at most one task is in flight per worker instance at any time: the pool
\* never forwards a task to a worker on which a previously forwarded task has
\* not yet resolved, timed out, or been ended by that worker erroring.
C1_OneTaskPerWorker ==
  \A i \in DOMAIN instances :
    Cardinality({t \in TaskIds : InFlightOn(t, i)}) <= 1

\* Task t went through the queue and processQueue forwarded it to a worker.
Drained(t) == tasks[t].viaQueue /\ tasks[t].fwd # 0

\* C2: with poolSize = 1, every task that waited in the queue is resolved once
\* the worker has become free, taken it and answered it (in time, without an
\* error), and the queued tasks are resolved in the order they were submitted.
C2_PoolFifo ==
  poolSize = 1 =>
    /\ \A t \in TaskIds :
         (Drained(t) /\ tasks[t].answered = "inTime" /\ ~tasks[t].workerErrored)
           => tasks[t].promise = "resolved"
    /\ \A t, u \in TaskIds :
         (t < u /\ Drained(t) /\ Drained(u) /\ tasks[u].promise = "resolved")
           => tasks[t].promise = "resolved"

\* Task t was assigned to a worker by Pool.postMessage itself, with a timeout.
AssignedWithTimeout(t) == poolTimeout /\ tasks[t].fwd # 0 /\ ~tasks[t].viaQueue

\* C3: for a task assigned to a worker with a timeout, a response processed
\* before the timer fires resolves the promise and the timer never rejects it;
\* if the timer fires first the promise is rejected, and the late response to
\* that task resolves no promise, neither this task's nor a later task's.
C3_TimeoutRace ==
  /\ \A t \in TaskIds :
       (AssignedWithTimeout(t) /\ tasks[t].answered = "inTime")
         => (tasks[t].promise = "resolved" /\ ~tasks[t].timerFired)
  /\ \A t \in TaskIds :
       (AssignedWithTimeout(t) /\ tasks[t].timerFired)
         => tasks[t].promise = "rejected"
  /\ \A t \in TaskIds : tasks[t].promise = "resolved" => ~tasks[t].late

\* Something the pool still holds can settle the pending task t: a timer whose
\* callback rejects it, a handleResponse listener on a live worker, or its
\* entry in the queue (which terminate() rejects).
CanStillSettle(t) ==
  \/ tasks[t].timer = "assigned"
  \/ tasks[t].timer = "queued" /\ t \in SeqRange(taskQueueRef)
  \/ tasks[t].fwd \in poolAlive /\ t \in SeqRange(listeners[tasks[t].fwd])
  \/ t \in SeqRange(taskQueueRef)

\* C4: with a non-zero timeout, every promise returned by Pool.postMessage is
\* eventually settled; so no promise is ever pending with nothing left that
\* could resolve or reject it, whether the task was assigned at once, queued
\* and later drained, or caught by terminate().
C4_EveryPromiseSettles ==
  poolTimeout =>
    \A t \in TaskIds : tasks[t].promise = "pending" => CanStillSettle(t)

C18_TimeoutOfTaskInFlight ==
  \A t \in TaskIds :
    (tasks[t].timerFired /\ tasks[t].fwd # 0 /\ tasks[t].answered # "inTime")
      => tasks[t].promise = "rejected"

\* C19: after every pool operation and worker event the pool's status is the
\* derived value: idle if the worker set is empty, error if every worker is in
\* error, otherwise running if any worker is running, otherwise starting if
\* any worker is starting.
C19_DerivedStatus ==
  LET ws == SeqRange(workersRef)
  IN IF ws = {} THEN poolStatus = "idle"
     ELSE IF \A w \in ws : instances[w].status = "error" THEN poolStatus = "error"
     ELSE IF \E w \in ws : instances[w].status = "running"
       THEN poolStatus = "running"
     ELSE (\E w \in ws : instances[w].status = "starting")
            => poolStatus = "starting"

C19_Witness ==
  /\ poolStatus = "running"
  /\ \E v, w \in SeqRange(workersRef) :
       instances[v].status = "error" /\ instances[w].status = "running"

\* C20: at every quiescent point the exposed queueLength is the number of
\* tasks waiting in the queue and availableWorkers the number of workers of
\* the worker set that are running and not busy.
C20_ExposedStats ==
  /\ queueLength = Len(taskQueueRef)
  /\ availableWorkers =
       Cardinality({w \in SeqRange(workersRef) :
                      ~instances[w].busy /\ instances[w].status = "running"})

(***************************************************************************)
(* Properties of the Single-Worker Supervisor                              *)
(***************************************************************************)
\* C5: the status is running only if a READY message of the worker instance
\* the supervisor currently holds has been processed since that instance was
\* started.
C5_RunningOnlyAfterReady ==
  status = "running" => (worker # 0 /\ readyFrom = worker)

\* The second instance (after a restart) has reported READY and is running.
C5_Witness == status = "running" /\ worker = 2 /\ readyFrom = 2

\* C6: once terminate() has returned and until the caller next invokes
\* start() or restart(), the status is idle.
C6_IdleAfterTerminate == callerTerminated => status = "idle"

\* C7: with keepAlive = false the idle countdown of a held worker always
\* stands at idleTimeout minus the time since the last postMessage or inbound
\* message (every activity restarts it in full), and when it fires the
\* supervisor has seen no activity for idleTimeout, releases the handle, is
\* idle and leaves no idle timer pending that could terminate again.
C7_IdleReclamation ==
  /\ (~keepAlive /\ worker # 0) => idleTimerRef = IdleTimeout - sinceActivity
  /\ lastOp = "idleTimeout" =>
       /\ worker = 0 /\ aliveInstances = {}
       /\ status = "idle"
       /\ idleTimerRef = NoTimer
       /\ sinceActivity >= IdleTimeout

\* A worker that was running, was sent a message and answered it, has been
\* reclaimed by the idle timer.
C7_Witness ==
  /\ lastOp = "idleTimeout" /\ ~keepAlive /\ status = "idle" /\ worker = 0
  /\ messagesSent = 1 /\ messagesReceived = 2

(***************************************************************************)
(* Properties of the StreamCollector                                       *)
(***************************************************************************)
CallsOf(id) == SelectSeq(calls, LAMBDA c : c.id = id)
CompletionsOf(id) == SelectSeq(completions, LAMBDA c : c.id = id)

\* L delivers chunks of one logical stream of N chunks: every chunk carries
\* totalChunks = N and an index in 0..N-1.
OneLogicalStream(L) ==
  /\ L # <<>>
  /\ \A k \in 1..Len(L) :
       /\ L[k].totalChunks = L[1].totalChunks
       /\ L[k].chunkIndex \in 0..(L[1].totalChunks - 1)

\* ... and no chunk is delivered twice (a prefix of a permutation).
NoRedelivery(L) ==
  \A j, k \in 1..Len(L) : j # k => L[j].chunkIndex # L[k].chunkIndex

\* The payload of the delivery of index i in L (unique under NoRedelivery).
PayloadOf(L, i) == (CHOOSE k \in 1..Len(L) : L[k].chunkIndex = i)

\* C8: feeding all N chunks of one stream (indices 0..N-1, totalChunks = N) in
\* any permutation gives exactly one completion callback whose data lists the
\* chunks in chunkIndex order, addChunk returns TRUE exactly on the completing
\* (N-th) call, and with fewer than N chunks fed there is no completion.
C8_CollectorCompleteness ==
  \A id \in StreamIds :
    LET L == CallsOf(id)
        N == L[1].totalChunks
    IN (OneLogicalStream(L) /\ NoRedelivery(L)) =>
         /\ \A k \in 1..Len(L) : L[k].ret = (k = N)
         /\ Len(L) < N => CompletionsOf(id) = <<>>
         /\ Len(L) = N =>
              /\ Len(CompletionsOf(id)) = 1
              /\ CompletionsOf(id)[1].data =
                   [i \in 1..N |-> L[PayloadOf(L, i - 1)].data]

\* A stream of three chunks fed completely in a non-ascending order has
\* completed.
C8_Witness ==
  \E id \in StreamIds :
    LET L == CallsOf(id)
    IN /\ OneLogicalStream(L) /\ NoRedelivery(L)
       /\ L[1].totalChunks = 3 /\ Len(L) = 3
       /\ L[1].chunkIndex = 2 /\ L[2].chunkIndex = 0
       /\ Len(CompletionsOf(id)) = 1

\* C9: one logical stream of N chunks delivered at least once (any order, any
\* chunk possibly delivered again, before or after completion) completes
\* exactly once: never a second completion callback, and one completion as
\* soon as every index has been delivered.
C9_CompletionExactlyOnce ==
  \A id \in StreamIds :
    LET L == CallsOf(id)
    IN OneLogicalStream(L) =>
         /\ Len(CompletionsOf(id)) <= 1
         /\ (\A i \in 0..(L[1].totalChunks - 1) :
                \E k \in 1..Len(L) : L[k].chunkIndex = i)
              => Len(CompletionsOf(id)) = 1

\* C10: completion happens only when every index 0..totalChunks-1 is stored
\* for the stream, whatever indices and duplicates were received; a duplicate
\* of a stored index replaces the chunk without advancing the stream.
C10_NoCompletionWithGap ==
  /\ \A k \in 1..Len(completions) :
       \A i \in 0..(completions[k].totalChunks - 1) : i \in completions[k].stored
  /\ \A k \in 1..Len(calls) :
       calls[k].chunkIndex \in calls[k].before => calls[k].after = calls[k].before


(***************************************************************************)
(* Properties of the Single-Worker Supervisor: metrics and error paths     *)
(***************************************************************************)
\* C12: for a worker that sends READY once and answers each PING with one
\* PONG (and sends nothing else), the status is running and, once k >= 1
\* PINGs have been posted and answered, messagesSent = messagesReceived = k.
C12_EndToEndMetrics ==
  (/\ worker # 0
   /\ seen.ready = 1
   /\ seen.other = 0
   /\ messagesSent >= 1
   /\ seen.pong = messagesSent)
    => (status = "running" /\ messagesReceived = messagesSent)

\* C13: when the supervisor has processed an ERROR message it has recorded
\* the reason, called the error callback once, terminated the worker, cleared
\* the init-timeout and idle timers and is in status error; the terminated
\* worker is not alive and has no handler attached, so that none of its
\* messages is processed afterwards.
C13_ProtocolError ==
  /\ lastOp = "ERROR" =>
       /\ error = "reason"
       /\ errorCallbacks = 1
       /\ status = "error"
       /\ worker = 0
       /\ aliveInstances = {}
       /\ messageHandlerRef = 0
       /\ timeoutRef = NoTimer
       /\ idleTimerRef = NoTimer
  /\ \A i \in 1..created : i \notin aliveInstances => messageHandlerRef # i

C13_Witness ==
  /\ lastOp = "ERROR"
  /\ error = "reason"
  /\ status = "error"
  /\ ~keepAlive
  /\ timeout # 0
  /\ created = 2

\* C14: a transport-level fault event of the worker is treated as a protocol
\* ERROR is: the error is recorded, the error callback called, the worker
\* torn down with its timers cleared, and the status becomes error.
C14_FaultAsProtocolError ==
  lastOp = "fault" =>
    /\ error # Null
    /\ errorCallbacks = 1
    /\ status = "error"
    /\ worker = 0
    /\ timeoutRef = NoTimer
    /\ idleTimerRef = NoTimer

\* C15: with an init timeout configured, a supervisor that has not observed
\* READY of the worker it holds ends in error when the timeout elapses: until
\* READY is observed the init-timeout timer stays pending, and when it fires
\* the supervisor records a timeout error, calls the error callback and tears
\* the worker down.
C15_InitTimeout ==
  /\ (timeout # 0 /\ worker # 0 /\ readyFrom # worker) => timeoutRef # NoTimer
  /\ lastOp = "initTimeout" =>
       /\ error = "Worker initialization timeout"
       /\ errorCallbacks = 1
       /\ status = "error"
       /\ worker = 0
       /\ aliveInstances = {}

\* C16: when constructing the worker fails inside start(), start() ends with
\* status error, the error set to the failure message and the error callback
\* called once, and the supervisor holds no worker and no armed init-timeout
\* or idle timer.
C16_ConstructionFailure ==
  lastOp \in {"startFailed", "delayedStartFailed"} =>
    /\ status = "error"
    /\ error = "Failed to create worker"
    /\ errorCallbacks = 1
    /\ worker = 0
    /\ aliveInstances = {}
    /\ messageHandlerRef = 0
    /\ timeoutRef = NoTimer
    /\ idleTimerRef = NoTimer

C16_Witness ==
  /\ lastOp = "startFailed"
  /\ status = "error"
  /\ created = 1
  /\ timeout # 0
  /\ ~keepAlive
  /\ messagesSent = 0
  /\ seen = NoneSeen

(***************************************************************************)
(* Properties of end-to-end streaming                                      *)
(***************************************************************************)
\* ceil(a / n)
Ceil(a, n) == (a + n - 1) \div n

\* The STREAM_CHUNK and STREAM_COMPLETE messages processed, in order.
StreamEvents ==
  SelectSeq(observed, LAMBDA e : e.type \in {"STREAM_CHUNK", "STREAM_COMPLETE"})

\* The stream action was handled, the emission has ended and every message
\* of the worker has been processed.
StreamDone ==
  /\ source.given
  /\ \A k \in 1..Len(dataStreams) : ~dataStreams[k].intervalId
  /\ wire = <<>>

\* The items of an array of chunks, in order.
RECURSIVE Flatten(_)
Flatten(chunks) ==
  IF chunks = <<>> THEN <<>> ELSE Head(chunks) \o Flatten(Tail(chunks))

\* C11: |A| >= 1 items streamed at n per chunk give ceil(|A|/n) STREAM_CHUNK
\* events in index order, then one STREAM_COMPLETE, and the array the
\* collector hands to the completion callback has length |A| and holds the
\* items in their original order.
C11_EndToEndStreaming ==
  (StreamDone /\ Len(source.data) >= 1) =>
    LET N == Ceil(Len(source.data), source.itemsPerChunk)
        ev == StreamEvents
    IN /\ Len(ev) = N + 1
       /\ \A k \in 1..N : ev[k].type = "STREAM_CHUNK" /\ ev[k].chunkIndex = k - 1
       /\ ev[N + 1].type = "STREAM_COMPLETE"
       /\ Len(completions) = 1
       /\ Len(completions[1].data) = Len(source.data)
       /\ Flatten(completions[1].data) = source.data


(***************************************************************************)
(* Metrics, listeners, postMessage and the single worker of a supervisor   *)
(***************************************************************************)
\* C21: each time start() creates a worker the metrics are reset for the new
\* incarnation: messagesSent = messagesReceived = 0, averageResponseTime = 0
\* with an empty latency window, and throughputPerMin, once it is set again,
\* counts no more than the result-type responses processed since that
\* start(): nothing recorded before it contributes.
C21_MetricsResetOnStart ==
  /\ lastOp \in {"start", "delayedStart"} =>
       /\ messagesSent = 0
       /\ messagesReceived = 0
       /\ averageResponseTime = ZeroAverage
       /\ responseTimes = 0
  /\ throughputPerMin # Undefined => throughputPerMin <= seen.result

OutboundTypes == { m.type : m \in Outbound }

\* C22: every handler registered through onMessage and not de-registered is
\* invoked exactly once for each message the supervisor processes, after the
\* message's counter and status updates (it observes messagesReceived already
\* incremented and the status the switch has set), and a handler that is not
\* registered is not invoked; a de-registration function removes its own
\* handler and leaves every other handler registered.
C22_ListenerFanOut ==
  [][/\ lastOp' \in OutboundTypes =>
          \A h \in Handlers :
            IF h \in listenersRef
            THEN /\ notified'[h].calls = 1
                 /\ notified'[h].type = lastOp'
                 /\ notified'[h].received = messagesReceived + 1
                 /\ notified'[h].status = status'
            ELSE notified'[h].calls = 0
     /\ lastOp' = "unsubscribe" =>
          \A h \in Handlers :
            h \in listenersRef' <=> (h \in listenersRef /\ h # lastArg')]_vars

\* h1 was registered and de-registered, h2 is registered, and a message that
\* changed the status was delivered to h2 alone.
C22_Witness ==
  /\ lastOp = "WARNING"
  /\ "h1" \in unsubscribers
  /\ notified["h1"].calls = 0
  /\ notified["h2"] = [calls |-> 1, type |-> "WARNING",
                        received |-> messagesReceived, status |-> "warning"]
  /\ messagesReceived = 2

\* C23: postMessage without a worker changes nothing (messagesSent,
\* lastActivity, the pending-send record, the idle timer, the status) and
\* forwards nothing; with a worker it increments messagesSent by one, stamps
\* lastActivity, restarts the idle countdown if one is configured and posts
\* the message it was given to the worker.
C23_PostMessage ==
  [][lastOp' = "postMessage" =>
       IF worker = 0
       THEN UNCHANGED <<messagesSent, sinceActivity, pendingMessagesRef,
                        idleTimerRef, status, channel, worker>>
       ELSE /\ messagesSent' = messagesSent + 1
            /\ sinceActivity' = 0
            /\ ~keepAlive => idleTimerRef' = IdleTimeout
            /\ keepAlive => idleTimerRef' = idleTimerRef
            /\ Len(channel') = Len(channel) + 1
            /\ channel'[Len(channel')].type = lastArg'
            /\ SubSeq(channel', 1, Len(channel)) = channel
            /\ UNCHANGED <<status, worker>>]_vars

\* A second message was posted to the worker of a supervisor with an idle
\* countdown: it is the last message of the channel, the countdown is full.
C23_Witness ==
  /\ lastOp = "postMessage"
  /\ lastArg = "ACTION"
  /\ worker # 0
  /\ ~keepAlive
  /\ idleTimerRef = IdleTimeout
  /\ messagesSent = 2
  /\ channel = <<[type |-> "PING"], [type |-> "ACTION"]>>

\* C24: at most one worker instance created by the supervisor is alive.
C24_SingleWorker == Cardinality(aliveInstances) <= 1

\* The delayed start() of a restart() found a worker that a start() in the
\* meantime had created, and replaced it.
C24_Witness ==
  /\ lastOp = "delayedStart"
  /\ replaced # 0
  /\ worker # 0
  /\ worker # replaced
  /\ aliveInstances = {worker}

(***************************************************************************)
(* The emit side: WorkerDataStream and the worker's stream/stop actions    *)
(***************************************************************************)
\* The objects of streamId id whose interval is running.
ActiveEmitters(id) ==
  { k \in 1..Len(dataStreams) :
      dataStreams[k].streamId = id /\ dataStreams[k].intervalId }

\* C25: at most one emission is active per streamId at any time, whatever
\* stream and stop actions reuse the id and whenever the intervals and the
\* clean-up timers fire.
C25_OneEmissionPerStreamId ==
  \A id \in EmitIds : Cardinality(ActiveEmitters(id)) <= 1

\* C26: an emission over N >= 1 chunks that its owner does not stop sends one
\* message per tick of its interval: STREAM_CHUNK with chunkIndex 0, ..., N-1
\* in that order, each with totalChunks = N, then one STREAM_COMPLETE; it is
\* inactive exactly from the STREAM_COMPLETE on and sends nothing after it.
C26_EmissionSequence ==
  \A k \in 1..Len(dataStreams) :
    LET o == dataStreams[k]
        N == Len(o.chunks)
    IN (N >= 1 /\ ~o.stoppedAt.called) =>
         /\ Len(o.sent) = o.ticks
         /\ Len(o.sent) <= N + 1
         /\ \A j \in 1..Len(o.sent) :
              IF j <= N
              THEN o.sent[j] = [type |-> "STREAM_CHUNK", chunkIndex |-> j - 1,
                                totalChunks |-> N]
              ELSE o.sent[j].type = "STREAM_COMPLETE"
         /\ o.intervalId <=> Len(o.sent) <= N

\* An emission over two chunks, never stopped, has completed, and its
\* clean-up timer has fired since.
C26_Witness ==
  \E k \in 1..Len(dataStreams) :
    /\ Len(dataStreams[k].chunks) = 2
    /\ ~dataStreams[k].stoppedAt.called
    /\ ~dataStreams[k].intervalId
    /\ Len(dataStreams[k].sent) = 3
    /\ cleanupTimer[k] = NoTimer

\* C27: once its owner has called stop() on a WorkerDataStream, the object
\* sends no further STREAM_CHUNK, STREAM_COMPLETE or STREAM_ERROR, reports
\* inactive and does not advance its cursor.
C27_SilentCancellation ==
  \A k \in 1..Len(dataStreams) :
    LET o == dataStreams[k]
    IN o.stoppedAt.called =>
         /\ ~o.intervalId
         /\ Len(o.sent) = o.stoppedAt.sent
         /\ o.currentIndex = o.stoppedAt.currentIndex

\* An emission over two chunks was stopped after its first chunk, and the time
\* up to its clean-up timer has passed since.
C27_Witness ==
  \E k \in 1..Len(dataStreams) :
    /\ Len(dataStreams[k].chunks) = 2
    /\ dataStreams[k].stoppedAt = [called |-> TRUE, sent |-> 1, currentIndex |-> 1]
    /\ cleanupTimer[k] = NoTimer

(***************************************************************************)
(* The chunking functions                                                  *)
(***************************************************************************)
\* C28: for a non-empty array A and n >= 1, chunkByCount(A, n) returns chunks
\* whose concatenation in order is A, each but the last of exactly n items,
\* the last of 1 to n items; for the empty array it returns one empty chunk.
C28_ChunkByCountRoundTrip ==
  (chunkCall.fn = "chunkByCount" /\ chunkResult.done) =>
    LET A == chunkCall.data
        n == chunkCall.arg
        c == chunkResult.chunks
    IN IF A = <<>>
       THEN c = << <<>> >>
       ELSE /\ Len(c) >= 1
            /\ Flatten(c) = A
            /\ \A j \in 1..(Len(c) - 1) : Len(c[j]) = n
            /\ Len(c[Len(c)]) \in 1..n

\* Three items at two per chunk: a full chunk and a shorter last one.
C28_Witness ==
  /\ chunkCall.fn = "chunkByCount"
  /\ chunkResult.done
  /\ chunkCall.data = <<7, 42, 365>>
  /\ chunkCall.arg = 2
  /\ chunkResult.chunks = << <<7, 42>>, <<365>> >>

\* C29: for a limit L > 0 every chunk of items chunkBySize(A, L) returns has
\* an estimated size (estimateSize of the chunk: 2 bytes per character of its
\* JSON text) of at most L, or is a single item.
C29_SizeBound ==
  (chunkCall.fn = "chunkBySize" /\ chunkResult.done /\ chunkCall.arg > 0) =>
    \A j \in 1..Len(chunkResult.chunks) :
      \/ Len(chunkResult.chunks[j]) = 0
      \/ EstimateSizeOfArray(chunkResult.chunks[j]) <= chunkCall.arg
      \/ Len(chunkResult.chunks[j]) = 1

\* C30: chunkBySize never returns zero chunks: one empty chunk for an empty
\* array, with or without a limit; for a non-empty array every chunk has at
\* least one item, and without a limit every item is a chunk of its own.
C30_NeverZeroChunks ==
  (chunkCall.fn = "chunkBySize" /\ chunkResult.done) =>
    LET A == chunkCall.data
        c == chunkResult.chunks
    IN IF A = <<>>
       THEN c = << <<>> >>
       ELSE /\ Len(c) >= 1
            /\ \A j \in 1..Len(c) : Len(c[j]) >= 1
            /\ chunkCall.arg = 0 => c = [k \in 1..Len(A) |-> <<A[k]>>]

(***************************************************************************)
(* Further properties of the Worker Pool Supervisor                        *)
(***************************************************************************)
\* C31: queue draining is strict FIFO: whenever a handler forwards a queued
\* task to a worker, the task was waiting in the queue and every task still
\* waiting afterwards was enqueued later; and no pass of processQueue assigns
\* more than one task to the same worker.
C31_StrictFifoDrain ==
  [][/\ \A t \in TaskIds :
          (tasks'[t].viaQueue /\ ~tasks[t].viaQueue)
            => /\ t \in SeqRange(taskQueueRef)
               /\ \A u \in SeqRange(taskQueueRef') : t < u
     /\ ~doubleAssigned']_vars

\* A pass has forwarded the head of the queue to the only idle worker and
\* left a later task waiting.
C31_Witness ==
  /\ taskQueueRef # <<>>
  /\ \E t \in TaskIds : tasks[t].viaQueue /\ tasks[t].fwd # 0
  /\ ~doubleAssigned

\* C33: when a pool worker sends ERROR while a task is in flight on it, that
\* task's promise is rejected with the error reason, and no pending task that
\* is not in flight on that worker is rejected by this ERROR.
C33_ErrorRejectsTaskInFlight ==
  [][\A i \in DOMAIN instances :
       (WorkerEmits(i, [type |-> "ERROR"])
          /\ \E t \in TaskIds : InFlightOn(t, i))
         => /\ \A t \in TaskIds :
                 InFlightOn(t, i) => /\ tasks'[t].promise = "rejected"
                                     /\ tasks'[t].reason = "worker error"
            /\ \A t \in TaskIds :
                 (tasks[t].promise = "pending" /\ ~InFlightOn(t, i))
                   => tasks'[t].promise = "pending"]_vars

\* C36: a promise returned by Pool.postMessage(m) is resolved only with the
\* result message the assigned worker sent in reply to m; in particular the
\* PONG that answers the warm-up PING resolves no caller's task.
C36_ResolvedByOwnReply ==
  \A t \in TaskIds :
    tasks[t].promise = "resolved" => tasks[t].resolvedWith = t

\* C37: at every quiescent point of the pool, if the queue is non-empty then
\* no worker of the worker set is running and not busy; so Pool.postMessage
\* assigns a task immediately only when no earlier task is waiting in the queue.
C37_NoIdleWorkerWhileQueued ==
  [][/\ taskQueueRef' # <<>>
          => \A w \in SeqRange(workersRef') :
               ~(instances'[w].status = "running" /\ ~instances'[w].busy)
     /\ \A t \in TaskIds' \ TaskIds :
          (tasks'[t].fwd # 0 /\ ~tasks'[t].viaQueue) => taskQueueRef = <<>>]_vars

\* A task waits in the queue while a worker of the set is running (and busy
\* with a task that was assigned immediately).
C37_Witness ==
  /\ taskQueueRef # <<>>
  /\ \E w \in SeqRange(workersRef) :
       /\ instances[w].status = "running" /\ instances[w].busy
       /\ \E t \in TaskIds : tasks[t].fwd = w /\ ~tasks[t].viaQueue

\* C38: the number of alive worker instances the pool has created never
\* exceeds poolSize, and every alive instance is in the pool's worker set (so
\* that terminate() terminates it), after any sequence of start(), terminate()
\* and restart() calls.
C38_BoundedTrackedWorkers ==
  /\ Cardinality(poolAlive) <= poolSize
  /\ poolAlive \subseteq SeqRange(workersRef)

(***************************************************************************)
(* Further properties of the Single-Worker Supervisor                      *)
(***************************************************************************)
\* C32: once the READY of the worker held has been processed, the init
\* timer is cancelled: no init timer is pending for as long as that worker is
\* held, and the init-timeout callback never runs in that worker's life.
C32_ReadyCancelsInitTimeout ==
  [][/\ (worker' # 0 /\ readyFrom' = worker') => timeoutRef' = NoTimer
     /\ (worker # 0 /\ readyFrom = worker) => ~InitTimeoutFires]_vars

\* With an init timeout configured, READY was processed in time and more
\* than the timeout has passed since; the worker is still held and running.
C32_Witness ==
  /\ timeout # 0
  /\ worker # 0
  /\ readyFrom = worker
  /\ status = "running"
  /\ sinceActivity >= InitTimeout

\* C39: whenever the status is idle the supervisor holds no worker handle and
\* has no init-timeout or idle timer pending (so that postMessage in status
\* idle is a no-op), also after the worker has sent TERMINATED.
C39_IdleHoldsNothing ==
  status = "idle" =>
    (worker = 0 /\ timeoutRef = NoTimer /\ idleTimerRef = NoTimer)

(***************************************************************************)
(* Properties of the stream callbacks                                      *)
(***************************************************************************)
\* The onStreamComplete invocations for stream id.
CompleteCallbacks(id) ==
  SelectSeq(streamCallbacks,
            LAMBDA e : e.cb = "onStreamComplete" /\ e.streamId = id)

\* The STREAM_COMPLETE messages of stream id in a log of processed messages.
CompleteMessages(log, id) ==
  SelectSeq(log, LAMBDA e : e.type = "STREAM_COMPLETE" /\ e.streamId = id)

\* C34: whenever the supervisor processes a STREAM_COMPLETE message of a
\* stream, onStreamComplete has already been invoked exactly once for the
\* emission it ends: as many times for the stream as STREAM_COMPLETE messages
\* of it have been processed, this one included.
C34_CompleteCallbackBeforeMessage ==
  [][(StreamMessage /\ Head(wire).type = "STREAM_COMPLETE")
       => Len(CompleteCallbacks(Head(wire).streamId))
            = Len(CompleteMessages(observed', Head(wire).streamId))]_vars

\* C35: the data passed to onStreamComplete is the chunk list of one
\* emission, complete and in order: it holds no chunk of an earlier emission
\* on the same streamId, and every chunk of the emission has arrived.
C35_CompletionOfOneEmission ==
  \A k \in 1..Len(completions) :
    \E e \in 1..Len(dataStreams) :
      /\ dataStreams[e].streamId = completions[k].id
      /\ completions[k].data = dataStreams[e].chunks

\* C40: for every stream, onStreamChunk has been invoked for each of its
\* chunks, the last one included, before onStreamComplete is invoked.
C40_ChunkCallbacksBeforeComplete ==
  \A p \in 1..Len(streamCallbacks) :
    streamCallbacks[p].cb = "onStreamComplete" =>
      \A i \in 0..(streamCallbacks[p].totalChunks - 1) :
        \E q \in 1..(p - 1) :
          /\ streamCallbacks[q].cb = "onStreamChunk"
          /\ streamCallbacks[q].streamId = streamCallbacks[p].streamId
          /\ streamCallbacks[q].chunkIndex = i

=============================================================================
